---- MODULE Spec2Model ----
(***************************************************************************)
(* CycleCogs: the link utilities of linkvertise_cog (is_valid_domain,      *)
(* extract_urls, convert_to_linkvertise) and the on_message handler of     *)
(* LinkvertiseCog that rewrites the links of a message.                    *)
(*                                                                         *)
(* Python strings are TLA+ strings; a character is a string of length 1.   *)
(* Positions reported by the program (match.start(), match.end(), offset)  *)
(* keep Python's 0-based, half-open convention; SubSeq is 1-based.         *)
(***************************************************************************)
EXTENDS Integers, Sequences, FiniteSets, TLC

(***************************************************************************)
(* Bounds of the model.                                                    *)
(***************************************************************************)
\* number of tokens concatenated into a host given to is_valid_domain
MaxHostParts == 3
\* number of tokens concatenated into a text given to extract_urls
MaxTextParts == 3
\* number of words of a message handled by on_message
MaxWords == 2

(***************************************************************************)
(* Characters and str methods.                                             *)
(***************************************************************************)
UpperAlpha == "ABCDEFGHIJKLMNOPQRSTUVWXYZ"
LowerAlpha == "abcdefghijklmnopqrstuvwxyz"
DigitChars == "0123456789"

Char(s, i) == SubSeq(s, i, i)

CharsOf(s) == {Char(s, i) : i \in 1..Len(s)}

Upper == CharsOf(UpperAlpha)
Letters == CharsOf(UpperAlpha) \cup CharsOf(LowerAlpha)
Digits == CharsOf(DigitChars)
HexDigits == Digits \cup CharsOf("abcdefABCDEF")
\* str.isspace() / the regex class \s, on the characters of the model
Whitespace == {" ", "\n", "\t"}

\* re: [a-zA-Z0-9]
Alnum == Letters \cup Digits
\* re: [a-zA-Z0-9-]
AlnumHyphen == Alnum \cup {"-"}
\* re: [\w-]
WordHyphen == Alnum \cup {"_", "-"}

\* every character of s is in the class
AllChars(s, class) == \A i \in 1..Len(s) : Char(s, i) \in class

LowerChar(c) ==
    IF c \in Upper
    THEN Char(LowerAlpha, CHOOSE i \in 1..26 : Char(UpperAlpha, i) = c)
    ELSE c

\* str.lower()
RECURSIVE Lower(_)
Lower(s) ==
    IF Len(s) <= 1 THEN LowerChar(s)
    ELSE LET h == Len(s) \div 2
         IN  Lower(SubSeq(s, 1, h)) \o Lower(SubSeq(s, h + 1, Len(s)))

\* sub in s
Contains(s, sub) ==
    \E i \in 1..(Len(s) - Len(sub) + 1) : SubSeq(s, i, i + Len(sub) - 1) = sub

\* s.startswith(prefix)
StartsWith(s, prefix) ==
    Len(s) >= Len(prefix) /\ SubSeq(s, 1, Len(prefix)) = prefix

\* position (1-based) of the first occurrence of the character c in s, 0 if none
FirstIndex(s, c) ==
    IF \E i \in 1..Len(s) : Char(s, i) = c
    THEN CHOOSE i \in 1..Len(s) :
            Char(s, i) = c /\ \A j \in 1..(i - 1) : Char(s, j) # c
    ELSE 0

\* s.split(c) for a one-character separator: a sequence of strings
RECURSIVE Split(_, _)
Split(s, c) ==
    LET i == FirstIndex(s, c)
    IN  IF i = 0 THEN <<s>>
        ELSE <<SubSeq(s, 1, i - 1)>> \o Split(SubSeq(s, i + 1, Len(s)), c)

\* int(s) of a string of decimal digits
RECURSIVE DecValue(_)
DecValue(s) ==
    IF s = "" THEN 0
    ELSE 10 * DecValue(SubSeq(s, 1, Len(s) - 1))
         + ((CHOOSE i \in 1..10 : Char(DigitChars, i) = Char(s, Len(s))) - 1)

\* s[lo:hi] with Python's treatment of negative and out-of-range indices
PySlice(s, lo, hi) ==
    LET n  == Len(s)
        l0 == IF lo < 0 THEN lo + n ELSE lo
        h0 == IF hi < 0 THEN hi + n ELSE hi
        l  == IF l0 < 0 THEN 0 ELSE IF l0 > n THEN n ELSE l0
        h  == IF h0 < 0 THEN 0 ELSE IF h0 > n THEN n ELSE h0
    IN  SubSeq(s, l + 1, h)

(***************************************************************************)
(* ipaddress.ip_address(domain), as far as is_valid_domain uses it: does   *)
(* the string parse as an IPv4 or IPv6 literal.                            *)
(***************************************************************************)
\* IPv4Address._parse_octet
ParseOctetOk(o) ==
    /\ o # ""
    /\ AllChars(o, Digits)
    /\ Len(o) <= 3
    /\ ~(Len(o) > 1 /\ Char(o, 1) = "0")
    /\ DecValue(o) <= 255

IsIPv4(s) ==
    LET octets == Split(s, ".")
    IN  /\ Len(octets) = 4
        /\ \A i \in 1..4 : ParseOctetOk(octets[i])

\* IPv6Address._parse_hextet
ParseHextetOk(h) ==
    /\ h # ""
    /\ AllChars(h, HexDigits)
    /\ Len(h) <= 4

\* IPv6Address._ip_int_from_string, on the address without its scope id
IPv6PartsOk(addr) ==
    LET raw   == Split(addr, ":")
        last  == raw[Len(raw)]
        v4    == Contains(last, ".")
        \* an embedded IPv4 address becomes two hextets
        parts == IF v4 THEN SubSeq(raw, 1, Len(raw) - 1) \o <<"0", "0">> ELSE raw
        n     == Len(parts)
        skips == {i \in 2..(n - 1) : parts[i] = ""}
        skip  == CHOOSE i \in skips : TRUE
        hi0   == skip - 1
        lo0   == n - skip
        hi    == IF parts[1] = "" THEN hi0 - 1 ELSE hi0
        lo    == IF parts[n] = "" THEN lo0 - 1 ELSE lo0
    IN  /\ Len(raw) >= 3
        /\ v4 => IsIPv4(last)
        /\ n <= 9
        /\ Cardinality(skips) <= 1
        /\ IF skips # {}
           THEN /\ parts[1] = "" => hi = 0
                /\ parts[n] = "" => lo = 0
                /\ 8 - (hi + lo) >= 1
                /\ \A i \in 1..hi : ParseHextetOk(parts[i])
                /\ \A i \in (n - lo + 1)..n : ParseHextetOk(parts[i])
           ELSE /\ n = 8
                /\ \A i \in 1..8 : ParseHextetOk(parts[i])

\* IPv6Address.__init__: no '/', an optional %scope that is neither empty
\* nor contains another '%'
IsIPv6(s) ==
    LET p     == FirstIndex(s, "%")
        addr  == IF p = 0 THEN s ELSE SubSeq(s, 1, p - 1)
        scope == IF p = 0 THEN "" ELSE SubSeq(s, p + 1, Len(s))
    IN  /\ ~Contains(s, "/")
        /\ p # 0 => (scope # "" /\ ~Contains(scope, "%"))
        /\ IPv6PartsOk(addr)

\* ip_address(domain) returns instead of raising ValueError
IsIPAddress(s) == IsIPv4(s) \/ IsIPv6(s)

(***************************************************************************)
(* is_valid_domain (linkvertise_cog/utils.py).                             *)
(***************************************************************************)
\* [d.lower() for d in whitelisted_domains]
LoweredList(whitelisted_domains) ==
    [i \in 1..Len(whitelisted_domains) |-> Lower(whitelisted_domains[i])]

\* a whitelist test that lowers the entries and not the host
InWhitelistHostAsGiven(domain, whitelisted_domains) ==
    /\ Len(whitelisted_domains) > 0
    /\ \E i \in 1..Len(whitelisted_domains) :
          LoweredList(whitelisted_domains)[i] = domain

\* domain.lower() in [d.lower() for d in whitelisted_domains]; a whitelist of
\* None and an empty list are both falsy and are both the empty sequence here
InWhitelist(domain, whitelisted_domains) ==
    /\ Len(whitelisted_domains) > 0
    /\ \E i \in 1..Len(whitelisted_domains) :
          LoweredList(whitelisted_domains)[i] = Lower(domain)

\* re: [a-zA-Z0-9](?:[a-zA-Z0-9-]{0,61}[a-zA-Z0-9])?
FirstLabelOk(l) ==
    /\ Len(l) >= 1
    /\ Len(l) <= 63
    /\ Char(l, 1) \in Alnum
    /\ Char(l, Len(l)) \in Alnum
    /\ AllChars(l, AlnumHyphen)

\* re: [a-zA-Z]{2,}
AlphaLabelOk(l) ==
    /\ Len(l) >= 2
    /\ AllChars(l, Letters)

\* re.match(r'^[a-zA-Z0-9](?:[a-zA-Z0-9-]{0,61}[a-zA-Z0-9])?(?:\.[a-zA-Z]{2,})+$', domain)
\* No class of the pattern holds '.', so the labels are the pieces between the
\* dots; '$' also matches just before a newline that ends the string.
DomainFormatOk(domain) ==
    LET n      == Len(domain)
        body   == IF n > 0 /\ Char(domain, n) = "\n"
                  THEN SubSeq(domain, 1, n - 1) ELSE domain
        labels == Split(body, ".")
    IN  /\ Len(labels) >= 2
        /\ FirstLabelOk(labels[1])
        /\ \A i \in 2..Len(labels) : AlphaLabelOk(labels[i])

\* a validator that excludes the host 'example.com' alone, not the hosts
\* that contain it
is_valid_domain_exact_placeholder(domain, whitelisted_domains) ==
    IF InWhitelist(domain, whitelisted_domains) THEN FALSE
    ELSE IF Lower(domain) = "localhost" THEN FALSE
    ELSE IF Lower(domain) = "example.com" THEN FALSE
    ELSE IF IsIPAddress(domain) THEN FALSE
    ELSE IF ~DomainFormatOk(domain) THEN FALSE
    ELSE TRUE

is_valid_domain(domain, whitelisted_domains) ==
    IF InWhitelist(domain, whitelisted_domains) THEN FALSE
    ELSE IF Lower(domain) = "localhost" THEN FALSE
    ELSE IF Contains(Lower(domain), "example.com") THEN FALSE
    ELSE IF IsIPAddress(domain) THEN FALSE
    ELSE IF ~DomainFormatOk(domain) THEN FALSE
    ELSE TRUE

(***************************************************************************)
(* URL_PATTERN and extract_urls (linkvertise_cog/utils.py).                *)
(*                                                                         *)
(* A position p is the 1-based index of the next character to read; an     *)
(* end of 0 means the sub-pattern did not match.  The operators follow the *)
(* order in which the backtracking matcher tries the alternatives.         *)
(***************************************************************************)
\* the position after the longest run, from p on, of characters of the class
RunEnd(text, p, class) ==
    CHOOSE e \in p..(Len(text) + 1) :
        /\ \A j \in p..(e - 1) : Char(text, j) \in class
        /\ e = Len(text) + 1 \/ Char(text, e) \notin class

\* the position after the longest run, from p on, of characters that are not
\* in the class
RunEndBefore(text, p, class) ==
    CHOOSE e \in p..(Len(text) + 1) :
        /\ \A j \in p..(e - 1) : Char(text, j) \notin class
        /\ e = Len(text) + 1 \/ Char(text, e) \in class

\* (?:https?:\/\/)? under re.IGNORECASE: the length of the scheme at p, 0 if none
SchemeLen(text, p) ==
    IF p + 7 <= Len(text) /\ Lower(SubSeq(text, p, p + 7)) = "https://" THEN 8
    ELSE IF p + 6 <= Len(text) /\ Lower(SubSeq(text, p, p + 6)) = "http://" THEN 7
    ELSE 0

\* one iteration of (?:[\w-]+\.): the run of [\w-] must be the longest one,
\* since the character after it has to be '.'
LabelUnitEnd(text, p) ==
    LET e == RunEnd(text, p, WordHyphen)
    IN  IF e > p /\ e <= Len(text) /\ Char(text, e) = "." THEN e + 1 ELSE 0

\* [a-z]{2,} under re.IGNORECASE, greedy; what follows it, (?:\/[^\s]*)?, never
\* fails, so the longest run is the one kept
TldEnd(text, q) ==
    LET e == RunEnd(text, q, Letters)
    IN  IF e - q >= 2 THEN e ELSE 0

\* (?:[\w-]+\.)+[a-z]{2,} once an iteration has ended at q: greedy, so more
\* iterations are tried first and the TLD at q only when they fail
RECURSIVE HostTail(_, _)
HostTail(text, q) ==
    LET q2   == LabelUnitEnd(text, q)
        more == IF q2 = 0 THEN 0 ELSE HostTail(text, q2)
    IN  IF more # 0 THEN more ELSE TldEnd(text, q)

HostEnd(text, p) ==
    LET q == LabelUnitEnd(text, p)
    IN  IF q = 0 THEN 0 ELSE HostTail(text, q)

\* (?:\/[^\s]*)?
PathEnd(text, e) ==
    IF e <= Len(text) /\ Char(text, e) = "/"
    THEN RunEndBefore(text, e, Whitespace)
    ELSE e

\* URL_PATTERN matched at p: with the scheme first, without it when that fails
MatchEnd(text, p) ==
    LET s  == SchemeLen(text, p)
        h1 == IF s > 0 THEN HostEnd(text, p + s) ELSE 0
        h  == IF h1 # 0 THEN h1 ELSE HostEnd(text, p)
    IN  IF h = 0 THEN 0 ELSE PathEnd(text, h)

\* re.finditer(URL_PATTERN, text, re.IGNORECASE) from position p on: the
\* matches as [start, end) with Python's 0-based indices; a match is tried at
\* each position in turn, and after a match the scan resumes at its end
\* a scan that resumes one character after the start of a match
RECURSIVE FindIterOverlapping(_, _)
FindIterOverlapping(text, p) ==
    LET starts == {q \in p..Len(text) : MatchEnd(text, q) # 0}
        q      == CHOOSE q \in starts : \A r \in starts : q <= r
        e      == MatchEnd(text, q)
    IN  IF starts = {} THEN <<>>
        ELSE <<[start |-> q - 1, end |-> e - 1]>> \o FindIterOverlapping(text, q + 1)

RECURSIVE FindIter(_, _)
FindIter(text, p) ==
    LET starts == {q \in p..Len(text) : MatchEnd(text, q) # 0}
        q      == CHOOSE q \in starts : \A r \in starts : q <= r
        e      == MatchEnd(text, q)
    IN  IF starts = {} THEN <<>>
        ELSE <<[start |-> q - 1, end |-> e - 1]>> \o FindIter(text, e)

\* urlparse(url if '://' in url else f'http://{url}').netloc
SchemeChars == Letters \cup Digits \cup {"+", "-", "."}

UrlNetloc(url) ==
    LET full   == IF Contains(url, "://") THEN url ELSE "http://" \o url
        i      == FirstIndex(full, ":")
        scheme == /\ i > 1
                  /\ Char(full, 1) \in Letters
                  /\ AllChars(SubSeq(full, 1, i - 1), SchemeChars)
        rest   == IF scheme THEN SubSeq(full, i + 1, Len(full)) ELSE full
        after  == SubSeq(rest, 3, Len(rest))
        stop   == RunEndBefore(after, 1, {"/", "?", "#"})
    IN  IF StartsWith(rest, "//") THEN SubSeq(after, 1, stop - 1) ELSE ""

\* the loop of extract_urls: the matches whose host is_valid_domain accepts,
\* as tuples (url, start_pos, end_pos)
RECURSIVE KeepValid(_, _, _)
KeepValid(text, matches, whitelisted_domains) ==
    IF matches = <<>> THEN <<>>
    ELSE LET m   == Head(matches)
             url == PySlice(text, m.start, m.end)
             hit == IF is_valid_domain(UrlNetloc(url), whitelisted_domains)
                    THEN <<[url |-> url, start |-> m.start, end |-> m.end]>>
                    ELSE <<>>
         IN  hit \o KeepValid(text, Tail(matches), whitelisted_domains)

extract_urls(text, whitelisted_domains) ==
    KeepValid(text, FindIter(text, 1), whitelisted_domains)

(***************************************************************************)
(* convert_to_linkvertise (linkvertise_cog/utils.py) and the body of the   *)
(* rewrite loop of on_message (linkvertise_cog/cog.py).                    *)
(***************************************************************************)
\* url.startswith(('http://', 'https://')), which is case-sensitive
HasHttpScheme(url) == StartsWith(url, "http://") \/ StartsWith(url, "https://")

\* client is what client.linkvertise(account_id, url) did: it raised, or it
\* returned client.value; shortened is what create_shortio_link returned,
\* with "" for None (create_shortio_link catches its own exceptions)
convert_to_linkvertise(url, client, shortio, shortened) ==
    LET prefixed == IF HasHttpScheme(url) THEN url ELSE "http://" \o url
    IN  IF client.raised THEN prefixed
        ELSE IF shortio /\ shortened # "" THEN shortened
        ELSE client.value

\* a loop body whose test is inverted: it edits when the conversion returned
\* its input and skips when it returned something else
ReplaceLinkInvertedTest(content, off, info, nu) ==
    IF nu # info.url
    THEN [new_content |-> content, offset |-> off]
    ELSE [new_content |-> PySlice(content, 0, info.start + off) \o nu
                          \o PySlice(content, info.end + off, Len(content)),
          offset |-> off + (Len(nu) - Len(info.url))]

\* a loop body that places every replacement at its span in the original text
ReplaceLinkNoOffset(content, off, info, nu) ==
    IF nu = info.url
    THEN [new_content |-> content, offset |-> off]
    ELSE [new_content |-> PySlice(content, 0, info.start) \o nu
                          \o PySlice(content, info.end, Len(content)),
          offset |-> off + (Len(nu) - Len(info.url))]

\* a loop body without the test for an unchanged URL, which adds the length
\* of the new URL to the offset
ReplaceLinkAlways(content, off, info, nu) ==
    [new_content |-> PySlice(content, 0, info.start + off) \o nu
                     \o PySlice(content, info.end + off, Len(content)),
     offset |-> off + Len(nu)]

\* one iteration of "for url, start, end in url_infos" once new_url is known:
\* the new values of new_content and offset
ReplaceLink(content, off, info, nu) ==
    IF nu = info.url
    THEN [new_content |-> content, offset |-> off]
    ELSE [new_content |-> PySlice(content, 0, info.start + off) \o nu
                          \o PySlice(content, info.end + off, Len(content)),
          offset |-> off + (Len(nu) - Len(info.url))]


(***************************************************************************)
(* State.                                                                  *)
(***************************************************************************)
VARIABLES
    \* the arguments and results of a call of is_valid_domain or extract_urls
    domain,                 \* is_valid_domain's domain
    text,                   \* extract_urls' text
    whitelisted_domains,    \* the whitelist: the argument, the guild's setting
    called,                 \* the function has returned
    valid,                  \* what is_valid_domain returned
    urls,                   \* what extract_urls returned
    \* LinkvertiseCog.on_message: the event, the guild's settings, the locals
    message,                \* [content, author_bot, text_channel, author_roles,
                            \*  display_name, avatar_url]
    config,                 \* [account_id, whitelisted_role_id, footer_text,
                            \*  shortio]; 0 is None
    pc,                     \* where the handler is
    url_infos,              \* extract_urls' result
    idx,                    \* 1-based index of the next element of url_infos
    new_content,
    offset,
    new_url,                \* "" while unbound
    footer_text,
    \* what the handler did to the channel
    deleted,                \* the original message is deleted
    webhooks,               \* number of webhooks of the handler in the channel
    log,                    \* the Discord calls that succeeded, in order
    attempts,               \* the Discord calls made, each with its outcome
    \* history: one entry per call of the conversion function
    conv,                   \* [url, raised, new_url]
    \* LinkvertiseCog.manage_whitelist: the commands invoked so far
    commands,               \* [action, domain, pc, whitelisted_domains, text]
    trace,                  \* the Config calls and sends so far, in order
    \* Anonymous: the guild's settings and the calls of AnonymousUtils
    enabled_channels,       \* list of channel ids
    channel_modes,          \* dict: str(channel id) -> mode
    role_modes,             \* dict: str(role id) -> mode
    user_ids,               \* dict: str(user id) -> anonymous id
    mode_call,              \* the last call of get_anonymity_mode
    id_calls,               \* the calls of generate_anonymous_id, in order
    \* StatusRole: the guild, one member, and _update_member_roles
    status_roles,           \* dict in insertion order: <<status_text, role id>>
    guild_roles,            \* the roles guild.get_role finds
    permitted,              \* the roles the bot may add and remove
    held_roles,             \* the roles the member holds in the guild
    member_roles,           \* member.roles, as the member object shows them
    status,                 \* the member's status text
    spc,                    \* where _update_member_roles is
    entries,                \* its local status_roles
    sidx,                   \* 1-based index of the next entry
    \* Verify: the guild, the member who clicks, and VerifyButton.callback
    verify_roles,           \* the stored list 'roles' of role ids
    existing_roles,         \* the roles interaction.guild.get_role finds
    assignable,             \* the roles the bot may give
    user_roles,             \* the roles of interaction.user
    vpc,                    \* where the callback is
    click,                  \* [guild_roles, before, failure]: the list the
                            \* callback read, the user's roles before it, and
                            \* "", "forbidden" or "error"
    roles_to_assign,        \* the roles add_roles has still to add
    response,               \* [state, content]: the interaction's response
    \* Anonymous.on_message handling one message
    amessage,               \* [guild, author_bot, channel, author, roles]
    apc,                    \* where the handler is
    amode,                  \* the result of get_anonymity_mode, "" before
    original,               \* "present" or "deleted": the member's message
    awebhooks,              \* number of webhooks of the handler in the channel
    acalls,                 \* the Discord calls made, each with its outcome
    \* the channel commands of the Anonymous cog
    channel_call,           \* the last command: [op, channel, mode, result, before]
    set_call                \* the channel set that has read the config

fnVars == <<domain, text, called, valid, urls>>
msgVars == <<message, config, pc, url_infos, idx, new_content, offset, new_url,
             footer_text, deleted, webhooks, log, attempts, conv>>
cmdVars == <<commands, trace>>
anonVars == <<enabled_channels, channel_modes, role_modes, user_ids, mode_call,
              id_calls>>
linkVars == <<fnVars, msgVars>>
verifyVars == <<verify_roles, existing_roles, assignable, user_roles, vpc,
                click, roles_to_assign, response>>
statusVars == <<status_roles, guild_roles, permitted, held_roles, member_roles,
                status, spc, entries, sidx>>
relayVars == <<amessage, apc, amode, original, awebhooks, acalls>>
channelVars == <<channel_call, set_call>>
otherCogVars ==
    <<cmdVars, anonVars, statusVars, verifyVars, relayVars, channelVars>>
notCmdVars ==
    <<linkVars, anonVars, statusVars, verifyVars, relayVars, channelVars>>
notAnonVars == <<linkVars, whitelisted_domains, cmdVars, statusVars, verifyVars,
                 relayVars, channelVars>>
notStatusVars == <<linkVars, whitelisted_domains, cmdVars, anonVars, verifyVars,
                   relayVars, channelVars>>
notVerifyVars == <<linkVars, whitelisted_domains, cmdVars, anonVars, statusVars,
                   relayVars, channelVars>>
notRelayVars == <<linkVars, whitelisted_domains, cmdVars, statusVars, verifyVars,
                  enabled_channels, channel_modes, role_modes, mode_call,
                  id_calls, channelVars>>
notChannelVars == <<linkVars, whitelisted_domains, cmdVars, statusVars,
                    verifyVars, relayVars, role_modes, user_ids, mode_call,
                    id_calls>>
vars == <<fnVars, msgVars, whitelisted_domains, otherCogVars>>

\* the variables of the function calls, in a specification that calls none
FnIdle ==
    /\ domain = ""
    /\ text = ""
    /\ called = FALSE
    /\ valid = FALSE
    /\ urls = <<>>

\* the variables of on_message, in a specification that handles no message
MsgIdle ==
    /\ message = [content |-> "", author_bot |-> FALSE, text_channel |-> TRUE,
                  author_roles |-> {}, display_name |-> "", avatar_url |-> ""]
    /\ config = [account_id |-> 0, whitelisted_role_id |-> 0,
                 footer_text |-> "", shortio |-> FALSE]
    /\ pc = "idle"
    /\ url_infos = <<>>
    /\ idx = 1
    /\ new_content = ""
    /\ offset = 0
    /\ new_url = ""
    /\ footer_text = ""
    /\ deleted = FALSE
    /\ webhooks = 0
    /\ log = <<>>
    /\ attempts = <<>>
    /\ conv = <<>>

\* the variables of manage_whitelist, in a specification without commands
CmdIdle ==
    /\ commands = <<>>
    /\ trace = <<>>

\* {}, a dict being a function from its keys
EmptyDict == [k \in {} |-> ""]

\* a call of get_anonymity_mode: the member's roles in order, the channel,
\* and what the call returned
ModeCall(roles, channel, result) ==
    [roles |-> roles, channel |-> channel, result |-> result]

\* the variables of the Anonymous cog: its default_guild, and no call made
AnonIdle ==
    /\ enabled_channels = <<>>
    /\ channel_modes = EmptyDict
    /\ role_modes = EmptyDict
    /\ user_ids = EmptyDict
    /\ mode_call = ModeCall(<<>>, 0, "")
    /\ id_calls = <<>>

\* the variables of the StatusRole cog, in a specification without it
StatusIdle ==
    /\ status_roles = <<>>
    /\ guild_roles = {}
    /\ permitted = {}
    /\ held_roles = {}
    /\ member_roles = {}
    /\ status = ""
    /\ spc = "idle"
    /\ entries = <<>>
    /\ sidx = 1

\* the interaction's response: none, sent, or deleted, and its content
Response(state, content) == [state |-> state, content |-> content]

\* the variables of the Verify cog, in a specification without it
VerifyIdle ==
    /\ verify_roles = <<>>
    /\ existing_roles = {}
    /\ assignable = {}
    /\ user_roles = {}
    /\ vpc = "idle"
    /\ click = [guild_roles |-> <<>>, before |-> {}, failure |-> ""]
    /\ roles_to_assign = <<>>
    /\ response = Response("none", "")

\* the variables of Anonymous.on_message, in a specification without it
RelayIdle ==
    /\ amessage = [guild |-> TRUE, author_bot |-> FALSE, channel |-> 0,
                   author |-> 0, roles |-> <<>>]
    /\ apc = "idle"
    /\ amode = ""
    /\ original = "present"
    /\ awebhooks = 0
    /\ acalls = <<>>

\* a channel command of the Anonymous cog and how it ended, with the
\* enabled_channels and channel_modes it found
ChannelCall(op, channel, mode, result, ec, cm) ==
    [op |-> op, channel |-> channel, mode |-> mode, result |-> result,
     before |-> [enabled_channels |-> ec, channel_modes |-> cm]]

\* the variables of the channel commands, in a specification without them
ChannelIdle ==
    /\ channel_call = ChannelCall("", 0, "", "", <<>>, EmptyDict)
    /\ set_call = [channel |-> 0, mode |-> ""]

\* the variables of LinkvertiseCog, in a specification of another cog
LinkIdle ==
    /\ FnIdle
    /\ MsgIdle
    /\ whitelisted_domains = <<>>
    /\ CmdIdle

\* the variables of the other cogs and commands, in a specification of
\* on_message or of its functions
OtherCogsIdle ==
    CmdIdle /\ AnonIdle /\ StatusIdle /\ VerifyIdle /\ RelayIdle /\ ChannelIdle

(***************************************************************************)
(* Inputs.                                                                 *)
(***************************************************************************)
\* the strings made of at most n tokens
RECURSIVE Concats(_, _)
Concats(tokens, n) ==
    IF n = 0 THEN {""}
    ELSE LET shorter == Concats(tokens, n - 1)
         IN  shorter \cup {s \o t : s \in shorter, t \in tokens}

\* a label of 63 characters, the longest the format check accepts
RECURSIVE Repeat(_, _)
Repeat(c, n) == IF n = 0 THEN "" ELSE c \o Repeat(c, n - 1)
LongLabel == Repeat("a", 6) \o Repeat("b", 57)

HostTokens ==
    {"LocalHost", "example.com", "my.", "good-site", ".org", "Example.ORG",
     "192.168.1.1", "::1", "-", "a", "\n", LongLabel}

Hosts == Concats(HostTokens, MaxHostParts) \ {""}

Whitelists ==
    {<<>>, <<"example.org", "Good-Site.ORG">>}

TextTokens ==
    {"http://", "a.com", " ", "/x.txt", "localhost", "192.168.1.1",
     "my.example.com", "good-site.org"}

Texts == Concats(TextTokens, MaxTextParts)

(***************************************************************************)
(* SpecDomain: one call of is_valid_domain(domain, whitelisted_domains).   *)
(***************************************************************************)
InitDomain ==
    /\ domain \in Hosts
    /\ whitelisted_domains \in Whitelists
    /\ text = ""
    /\ called = FALSE
    /\ valid = FALSE
    /\ urls = <<>>
    /\ MsgIdle
    /\ OtherCogsIdle

CallIsValidDomain ==
    /\ ~called
    /\ valid' = is_valid_domain(domain, whitelisted_domains)
    /\ called' = TRUE
    /\ UNCHANGED <<domain, text, urls, whitelisted_domains, msgVars,
                   otherCogVars>>

NextDomain == CallIsValidDomain

SpecDomain == InitDomain /\ [][NextDomain]_vars

(***************************************************************************)
(* SpecExtract: one call of extract_urls(text, whitelisted_domains).       *)
(***************************************************************************)
InitExtract ==
    /\ text \in Texts
    /\ whitelisted_domains \in Whitelists
    /\ domain = ""
    /\ called = FALSE
    /\ valid = FALSE
    /\ urls = <<>>
    /\ MsgIdle
    /\ OtherCogsIdle

CallExtractUrls ==
    /\ ~called
    /\ urls' = extract_urls(text, whitelisted_domains)
    /\ called' = TRUE
    /\ UNCHANGED <<domain, text, valid, whitelisted_domains, msgVars,
                   otherCogVars>>

NextExtract == CallExtractUrls

SpecExtract == InitExtract /\ [][NextExtract]_vars

(***************************************************************************)
(* Spec: LinkvertiseCog.on_message (linkvertise_cog/cog.py) handling one   *)
(* message.  Every await of a Discord call is a step whose outcome the     *)
(* environment chooses: it succeeds, raises discord.Forbidden, or raises   *)
(* another exception (discord.NotFound, discord.HTTPException).            *)
(***************************************************************************)
\* DEFAULT_FOOTER, shortened
DEFAULT_FOOTER == "> *converted*"

\* the words of a message
MessageWords == {"see", "http://a.com", "bb.com", "http://localhost/x.txt"}

\* the messages of at most n words, the words separated by one space
RECURSIVE Sentences(_)
Sentences(n) ==
    IF n = 1 THEN MessageWords
    ELSE Sentences(n - 1)
         \cup {s \o " " \o w : s \in Sentences(n - 1), w \in MessageWords}

SpecExample == "see http://a.com and http://bb.com now"

Messages == Sentences(MaxWords) \cup {SpecExample}

\* who wrote the message and where, with the guild's account and role settings
Scenarios ==
    {[author_bot |-> FALSE, text_channel |-> TRUE, author_roles |-> {},
      account_id |-> 7, whitelisted_role_id |-> 0],
     [author_bot |-> FALSE, text_channel |-> TRUE, author_roles |-> {6},
      account_id |-> 7, whitelisted_role_id |-> 5],
     [author_bot |-> TRUE, text_channel |-> TRUE, author_roles |-> {},
      account_id |-> 7, whitelisted_role_id |-> 0],
     [author_bot |-> FALSE, text_channel |-> FALSE, author_roles |-> {},
      account_id |-> 7, whitelisted_role_id |-> 0],
     [author_bot |-> FALSE, text_channel |-> TRUE, author_roles |-> {},
      account_id |-> 0, whitelisted_role_id |-> 0],
     [author_bot |-> FALSE, text_channel |-> TRUE, author_roles |-> {5, 6},
      account_id |-> 7, whitelisted_role_id |-> 5]}

\* what client.linkvertise does, and what create_shortio_link returns
ClientOutcomes ==
    {[raised |-> TRUE, value |-> ""],
     [raised |-> FALSE, value |-> "https://link-to.net/7"]}
ShortioResults == {"", "s.io/1"}

\* what a Discord call does
CallOutcomes == {"ok", "forbidden", "error"}

InitMessage ==
    /\ domain = ""
    /\ text = ""
    /\ called = FALSE
    /\ valid = FALSE
    /\ urls = <<>>
    /\ whitelisted_domains \in Whitelists
    /\ \E sc \in Scenarios, m \in Messages, sh \in BOOLEAN :
          /\ message = [content |-> m, author_bot |-> sc.author_bot,
                        text_channel |-> sc.text_channel,
                        author_roles |-> sc.author_roles,
                        display_name |-> "alice", avatar_url |-> "alice.png"]
          /\ config = [account_id |-> sc.account_id,
                       whitelisted_role_id |-> sc.whitelisted_role_id,
                       footer_text |-> DEFAULT_FOOTER, shortio |-> sh]
    /\ pc = "start"
    /\ url_infos = <<>>
    /\ idx = 1
    /\ new_content = ""
    /\ offset = 0
    /\ new_url = ""
    /\ footer_text = ""
    /\ deleted = FALSE
    /\ webhooks = 0
    /\ log = <<>>
    /\ attempts = <<>>
    /\ conv = <<>>
    /\ OtherCogsIdle

\* an entry of log
Did(op, content, username, avatar_url) ==
    [op |-> op, content |-> content, username |-> username,
     avatar_url |-> avatar_url]

\* the checks without the test of the whitelist role
CheckMessageNoRoleTest ==
    /\ pc = "start"
    /\ pc' = IF \/ message.author_bot
                \/ ~message.text_channel
                \/ config.account_id = 0
             THEN "done" ELSE "extract"
    /\ UNCHANGED <<otherCogVars, fnVars, whitelisted_domains, attempts,
                   message,
                   config, url_infos, idx,
                   new_content, offset, new_url, footer_text, deleted, webhooks,
                   log, conv>>

\* lines 33-52: the checks that end the handler before it reads the message
CheckMessage ==
    /\ pc = "start"
    /\ pc' = IF \/ message.author_bot
                \/ ~message.text_channel
                \/ config.account_id = 0
                \/ /\ config.whitelisted_role_id # 0
                   /\ config.whitelisted_role_id \in message.author_roles
             THEN "done" ELSE "extract"
    /\ UNCHANGED <<otherCogVars, fnVars, whitelisted_domains, attempts,
                   message,
                   config, url_infos, idx,
                   new_content, offset, new_url, footer_text, deleted, webhooks,
                   log, conv>>

\* lines 54-66: extract the links, return when there is none
ExtractLinks ==
    /\ pc = "extract"
    /\ url_infos' = extract_urls(message.content, whitelisted_domains)
    /\ pc' = IF url_infos' = <<>> THEN "done" ELSE "convert"
    /\ new_content' = IF url_infos' = <<>> THEN new_content ELSE message.content
    /\ offset' = 0
    /\ idx' = 1
    /\ UNCHANGED <<otherCogVars, fnVars, whitelisted_domains, attempts,
                   message,
                   config, new_url,
                   footer_text, deleted, webhooks, log, conv>>

\* lines 68-86: one iteration of the loop, the conversion having returned nu
LoopBody(nu, raised) ==
    LET info == url_infos[idx]
        r    == ReplaceLink(new_content, offset, info, nu)
    IN  /\ new_url' = nu
        /\ new_content' = r.new_content
        /\ offset' = r.offset
        /\ idx' = idx + 1
        /\ conv' = Append(conv, [url |-> info.url, raised |-> raised,
                                 new_url |-> nu])
        /\ UNCHANGED <<otherCogVars, fnVars, whitelisted_domains, attempts,
                       message,
                       config, pc,
                       url_infos, footer_text, deleted, webhooks, log>>

ConvertLink ==
    /\ pc = "convert"
    /\ idx <= Len(url_infos)
    /\ \E client \in ClientOutcomes, shortened \in ShortioResults :
          LoopBody(convert_to_linkvertise(url_infos[idx].url, client,
                                          config.shortio, shortened),
                   client.raised)

\* the end of the loop without the comparison with the original content
CompareContentAlwaysRelay ==
    /\ pc = "convert"
    /\ idx > Len(url_infos)
    /\ footer_text' = "\n\n" \o config.footer_text
    /\ new_content' = new_content \o footer_text'
    /\ pc' = "delete"
    /\ UNCHANGED <<otherCogVars, fnVars, whitelisted_domains, attempts,
                   message,
                   config, url_infos, idx,
                   offset, new_url, deleted, webhooks, log, conv>>

\* lines 88-93: return when nothing changed, else append the footer
CompareContent ==
    /\ pc = "convert"
    /\ idx > Len(url_infos)
    /\ IF new_content = message.content
       THEN /\ pc' = "done"
            /\ UNCHANGED <<footer_text, new_content>>
       ELSE /\ footer_text' = "\n\n" \o config.footer_text
            /\ new_content' = new_content \o footer_text'
            /\ pc' = "delete"
    /\ UNCHANGED <<otherCogVars, fnVars, whitelisted_domains, attempts,
                   message,
                   config, url_infos, idx,
                   offset, new_url, deleted, webhooks, log, conv>>

\* where the handler goes when a call inside the inner try fails
AfterInnerFailure(outcome) ==
    IF outcome = "forbidden" THEN "channel_send" ELSE "raised"

\* the delete whose Forbidden is handled by the inner except clause
DeleteOriginalInnerHandler ==
    /\ pc = "delete"
    /\ \E outcome \in CallOutcomes :
          /\ attempts' = Append(attempts, [op |-> "delete",
                                          outcome |-> outcome])
          /\ deleted' = (outcome = "ok")
          /\ log' = IF outcome = "ok"
                    THEN Append(log, Did("delete", "", "", "")) ELSE log
          /\ pc' = IF outcome = "ok" THEN "create_webhook"
                   ELSE AfterInnerFailure(outcome)
    /\ UNCHANGED <<otherCogVars, fnVars, whitelisted_domains, message, config,
                   url_infos, idx,
                   new_content, offset, new_url, footer_text, webhooks, conv>>

\* line 97: await message.delete()
DeleteOriginal ==
    /\ pc = "delete"
    /\ \E outcome \in CallOutcomes :
          /\ attempts' = Append(attempts, [op |-> "delete",
                                          outcome |-> outcome])
          /\ deleted' = (outcome = "ok")
          /\ log' = IF outcome = "ok"
                    THEN Append(log, Did("delete", "", "", "")) ELSE log
          /\ pc' = CASE outcome = "ok" -> "create_webhook"
                     [] outcome = "forbidden" -> "reply"
                     [] OTHER -> "raised"
    /\ UNCHANGED <<otherCogVars, fnVars, whitelisted_domains, message, config,
                   url_infos, idx,
                   new_content, offset, new_url, footer_text, webhooks, conv>>

\* lines 101-104: await message.channel.create_webhook(...)
CreateWebhook ==
    /\ pc = "create_webhook"
    /\ \E outcome \in CallOutcomes :
          /\ attempts' = Append(attempts, [op |-> "create_webhook",
                                          outcome |-> outcome])
          /\ webhooks' = IF outcome = "ok" THEN webhooks + 1 ELSE webhooks
          /\ log' = IF outcome = "ok"
                    THEN Append(log, Did("create_webhook", "",
                                         message.display_name, ""))
                    ELSE log
          /\ pc' = IF outcome = "ok" THEN "webhook_send"
                   ELSE AfterInnerFailure(outcome)
    /\ UNCHANGED <<otherCogVars, fnVars, whitelisted_domains, message, config,
                   url_infos, idx,
                   new_content, offset, new_url, footer_text, deleted, conv>>

\* webhook.send without the author's name and avatar
WebhookSendOwnIdentity ==
    /\ pc = "webhook_send"
    /\ \E outcome \in CallOutcomes :
          /\ attempts' = Append(attempts, [op |-> "webhook_send",
                                          outcome |-> outcome])
          /\ log' = IF outcome = "ok"
                    THEN Append(log, Did("webhook_send", new_content, "", ""))
                    ELSE log
          /\ pc' = IF outcome = "ok" THEN "webhook_delete"
                   ELSE AfterInnerFailure(outcome)
    /\ UNCHANGED <<otherCogVars, fnVars, whitelisted_domains, message, config,
                   url_infos, idx,
                   new_content, offset, new_url, footer_text, deleted, webhooks,
                   conv>>

\* lines 107-112: await webhook.send(...)
WebhookSend ==
    /\ pc = "webhook_send"
    /\ \E outcome \in CallOutcomes :
          /\ attempts' = Append(attempts, [op |-> "webhook_send",
                                          outcome |-> outcome])
          /\ log' = IF outcome = "ok"
                    THEN Append(log, Did("webhook_send", new_content,
                                         message.display_name,
                                         message.avatar_url))
                    ELSE log
          /\ pc' = IF outcome = "ok" THEN "webhook_delete"
                   ELSE AfterInnerFailure(outcome)
    /\ UNCHANGED <<otherCogVars, fnVars, whitelisted_domains, message, config,
                   url_infos, idx,
                   new_content, offset, new_url, footer_text, deleted, webhooks,
                   conv>>

\* line 115: await webhook.delete()
WebhookDelete ==
    /\ pc = "webhook_delete"
    /\ \E outcome \in CallOutcomes :
          /\ attempts' = Append(attempts, [op |-> "webhook_delete",
                                          outcome |-> outcome])
          /\ webhooks' = IF outcome = "ok" THEN webhooks - 1 ELSE webhooks
          /\ log' = IF outcome = "ok"
                    THEN Append(log, Did("webhook_delete", "", "", ""))
                    ELSE log
          /\ pc' = IF outcome = "ok" THEN "done"
                   ELSE AfterInnerFailure(outcome)
    /\ UNCHANGED <<otherCogVars, fnVars, whitelisted_domains, message, config,
                   url_infos, idx,
                   new_content, offset, new_url, footer_text, deleted, conv>>

\* lines 116-121: except discord.Forbidden: await message.channel.send(...);
\* a discord.Forbidden raised here reaches the outer except clause
ChannelSend ==
    /\ pc = "channel_send"
    /\ \E outcome \in CallOutcomes :
          /\ attempts' = Append(attempts, [op |-> "channel_send",
                                          outcome |-> outcome])
          /\ log' = IF outcome = "ok"
                    THEN Append(log, Did("channel_send", new_content, "", ""))
                    ELSE log
          /\ pc' = CASE outcome = "ok" -> "done"
                     [] outcome = "forbidden" -> "reply"
                     [] OTHER -> "raised"
    /\ UNCHANGED <<otherCogVars, fnVars, whitelisted_domains, message, config,
                   url_infos, idx,
                   new_content, offset, new_url, footer_text, deleted, webhooks,
                   conv>>

\* lines 122-127: except discord.Forbidden: await message.reply(...)
Reply ==
    /\ pc = "reply"
    /\ \E outcome \in CallOutcomes :
          /\ attempts' = Append(attempts, [op |-> "reply",
                                          outcome |-> outcome])
          /\ log' = IF outcome = "ok"
                    THEN Append(log, Did("reply", "Links converted: " \o new_url
                                                  \o footer_text, "", ""))
                    ELSE log
          /\ pc' = IF outcome = "ok" THEN "done" ELSE "raised"
    /\ UNCHANGED <<otherCogVars, fnVars, whitelisted_domains, message, config,
                   url_infos, idx,
                   new_content, offset, new_url, footer_text, deleted, webhooks,
                   conv>>

Next ==
    \/ CheckMessage
    \/ ExtractLinks
    \/ ConvertLink
    \/ CompareContent
    \/ DeleteOriginal
    \/ CreateWebhook
    \/ WebhookSend
    \/ WebhookDelete
    \/ ChannelSend
    \/ Reply

Spec == InitMessage /\ [][Next]_vars

(***************************************************************************)
(* SpecRewrite: lines 59-93 of on_message with the conversion left open:   *)
(* for each match the conversion returns its input, its input behind       *)
(* 'http://', or one of a few other strings, the empty string included.    *)
(***************************************************************************)
ConvertResults(url) == {url, "http://" \o url, "X", "YY", ""}

InitRewrite ==
    /\ domain = ""
    /\ text = ""
    /\ called = FALSE
    /\ valid = FALSE
    /\ urls = <<>>
    /\ whitelisted_domains \in Whitelists
    /\ \E m \in Messages :
          message = [content |-> m, author_bot |-> FALSE, text_channel |-> TRUE,
                     author_roles |-> {}, display_name |-> "alice",
                     avatar_url |-> "alice.png"]
    /\ config = [account_id |-> 7, whitelisted_role_id |-> 0,
                 footer_text |-> DEFAULT_FOOTER, shortio |-> FALSE]
    /\ pc = "extract"
    /\ url_infos = <<>>
    /\ idx = 1
    /\ new_content = ""
    /\ offset = 0
    /\ new_url = ""
    /\ footer_text = ""
    /\ deleted = FALSE
    /\ webhooks = 0
    /\ log = <<>>
    /\ attempts = <<>>
    /\ conv = <<>>
    /\ OtherCogsIdle

RewriteLink ==
    /\ pc = "convert"
    /\ idx <= Len(url_infos)
    /\ \E nu \in ConvertResults(url_infos[idx].url) : LoopBody(nu, FALSE)

NextRewrite ==
    \/ ExtractLinks
    \/ RewriteLink
    \/ CompareContent

SpecRewrite == InitRewrite /\ [][NextRewrite]_vars

(***************************************************************************)
(* SpecWhitelist: LinkvertiseCog.manage_whitelist (linkvertise_cog/cog.py, *)
(* lines 163-204), invoked up to MaxCommands times on one guild.  The      *)
(* commands are coroutines of one event loop: each runs from one await to  *)
(* the next without interruption, and between two awaits of one command    *)
(* the others may run.  The awaits are the read of the stored list, which  *)
(* returns a copy of it, the set call and the ctx.send.                    *)
(***************************************************************************)
MaxCommands == 2

\* the words given as action and as domain; "" is a domain not given, and
\* the actions that read no domain are given none
CommandDomains == {"", "a.com", "A.com"}
CommandInputs ==
    [action : {"add", "Remove"}, domain : CommandDomains]
        \cup [action : {"list", "purge"}, domain : {""}]

InitWhitelist ==
    /\ FnIdle
    /\ MsgIdle
    /\ AnonIdle
    /\ RelayIdle
    /\ ChannelIdle
    /\ StatusIdle
    /\ VerifyIdle
    /\ whitelisted_domains = <<>>
    /\ commands = <<>>
    /\ trace = <<>>

\* an entry of trace: command c called op with this value
Called(c, op, value) == [cmd |-> c, op |-> op, value |-> value]

\* x in list
InList(x, list) == \E i \in 1..Len(list) : list[i] = x

\* list.remove(x): the list without its first element equal to x
ListRemove(x, list) ==
    LET i == CHOOSE k \in 1..Len(list) :
                 list[k] = x /\ \A j \in 1..(k - 1) : list[j] # x
    IN  SubSeq(list, 1, i - 1) \o SubSeq(list, i + 1, Len(list))

\* sep.join(list)
RECURSIVE Join(_, _)
Join(list, sep) ==
    IF list = <<>> THEN ""
    ELSE IF Len(list) = 1 THEN list[1]
    ELSE list[1] \o sep \o Join(Tail(list), sep)

\* a member invokes the command
Invoke ==
    /\ Len(commands) < MaxCommands
    /\ \E in \in CommandInputs :
          commands' = Append(commands,
                             [action |-> in.action, domain |-> in.domain,
                              pc |-> "start", whitelisted_domains |-> <<>>,
                              text |-> ""])
    /\ UNCHANGED <<notCmdVars, whitelisted_domains, trace>>

\* lines 173-203 up to the next await: the action is checked, the stored
\* list is read, and the command decides what to send or to store
ReadWhitelist(c) ==
    LET cmd    == commands[c]
        action == Lower(cmd.action)
        list   == whitelisted_domains
        d      == cmd.domain
        say(t) == [cmd EXCEPT !.pc = "send", !.text = t,
                              !.whitelisted_domains = list]
        store(l) == [cmd EXCEPT !.pc = "set", !.whitelisted_domains = l]
    IN  /\ cmd.pc = "start"
        /\ IF action \notin {"add", "remove", "list"}
           THEN /\ commands' = [commands EXCEPT ![c] =
                        [cmd EXCEPT !.pc = "send",
                            !.text = "Invalid action. Available actions: "
                                     \o "add, remove, list"]]
                /\ UNCHANGED trace
           ELSE /\ trace' = Append(trace, Called(c, "get", list))
                /\ commands' = [commands EXCEPT ![c] =
                      IF action = "list"
                      THEN IF list = <<>> THEN say("Whitelist is empty")
                           ELSE say("Whitelisted domains:\n"
                                    \o Join(list, "\n"))
                      ELSE IF d = "" THEN say("Please provide a domain")
                      ELSE IF action = "add"
                      THEN IF InList(d, list)
                           THEN say(d \o " is already whitelisted")
                           ELSE store(Append(list, d))
                      ELSE IF ~InList(d, list)
                           THEN say(d \o " is not in whitelist")
                           ELSE store(ListRemove(d, list))]
        /\ UNCHANGED <<notCmdVars, whitelisted_domains>>

\* a set call that applies the command to the list stored at that moment
SetWhitelistOnStored(c) ==
    LET cmd == commands[c]
        now == IF Lower(cmd.action) = "add"
               THEN IF InList(cmd.domain, whitelisted_domains)
                    THEN whitelisted_domains
                    ELSE Append(whitelisted_domains, cmd.domain)
               ELSE IF InList(cmd.domain, whitelisted_domains)
                    THEN ListRemove(cmd.domain, whitelisted_domains)
                    ELSE whitelisted_domains
    IN  /\ cmd.pc = "set"
        /\ whitelisted_domains' = now
        /\ trace' = Append(trace, Called(c, "set", now))
        /\ commands' = [commands EXCEPT ![c] =
              [cmd EXCEPT !.pc = "send",
                          !.text = IF Lower(cmd.action) = "add"
                                   THEN "Added " \o cmd.domain
                                        \o " to whitelist"
                                   ELSE "Removed " \o cmd.domain
                                        \o " from whitelist"]]
        /\ UNCHANGED notCmdVars

\* lines 196 and 203: await ...whitelisted_domains.set(whitelisted_domains)
SetWhitelist(c) ==
    LET cmd == commands[c]
    IN  /\ cmd.pc = "set"
        /\ whitelisted_domains' = cmd.whitelisted_domains
        /\ trace' = Append(trace, Called(c, "set", cmd.whitelisted_domains))
        /\ commands' = [commands EXCEPT ![c] =
              [cmd EXCEPT !.pc = "send",
                          !.text = IF Lower(cmd.action) = "add"
                                   THEN "Added " \o cmd.domain
                                        \o " to whitelist"
                                   ELSE "Removed " \o cmd.domain
                                        \o " from whitelist"]]
        /\ UNCHANGED notCmdVars

\* await ctx.send(...), the last call of every branch
SendAnswer(c) ==
    LET cmd == commands[c]
    IN  /\ cmd.pc = "send"
        /\ trace' = Append(trace, Called(c, "send", cmd.text))
        /\ commands' = [commands EXCEPT ![c] = [cmd EXCEPT !.pc = "done"]]
        /\ UNCHANGED <<notCmdVars, whitelisted_domains>>

NextWhitelist ==
    \/ Invoke
    \/ \E c \in 1..Len(commands) : ReadWhitelist(c)
    \/ \E c \in 1..Len(commands) : SetWhitelist(c)
    \/ \E c \in 1..Len(commands) : SendAnswer(c)

SpecWhitelist == InitWhitelist /\ [][NextWhitelist]_vars

(***************************************************************************)
(* SpecMode: the Anonymous cog's channel and role commands                 *)
(* (anonymous_cog/cog.py) and AnonymousUtils.get_anonymity_mode            *)
(* (anonymous_cog/utils.py) on one guild.                                  *)
(***************************************************************************)
\* str(n) of a natural number
RECURSIVE Str(_)
Str(n) ==
    IF n < 10 THEN Char(DigitChars, n + 1)
    ELSE Str(n \div 10) \o Char(DigitChars, (n % 10) + 1)

\* d[k] = v, del d[k], d.get(k, default)
DictSet(d, k, v) == [x \in DOMAIN d \cup {k} |-> IF x = k THEN v ELSE d[x]]
DictDel(d, k) == [x \in DOMAIN d \ {k} |-> d[x]]
DictGet(d, k, default) == IF k \in DOMAIN d THEN d[k] ELSE default

\* the values of the enum AnonymityMode
NO_ANONYMITY == "no_anonymity"
BASIC_ANONYMITY == "basic_anonymity"
FULL_ANONYMITY == "full_anonymity"
AnonymityModes == {NO_ANONYMITY, BASIC_ANONYMITY, FULL_ANONYMITY}

\* AnonymityMode(value): the member of that value, or ValueError
AnonymityMode(value) ==
    IF value \in AnonymityModes THEN value ELSE "ValueError"

\* the ids of the guild's roles and channels, and the words given as mode
RoleIds == {5, 6}
ChannelIds == {21, 22}
ModeWords == AnonymityModes \cup {"anonymous"}

\* member.roles: some of the guild's roles, in some order, each once
MemberRoleLists ==
    {roles \in UNION {[1..n -> RoleIds] : n \in 0..Cardinality(RoleIds)} :
        \A i, j \in 1..Len(roles) : roles[i] = roles[j] => i = j}

\* utils.py, lines 51-53: the loop over member.roles from index i on; "" when
\* it ends without a return
RECURSIVE FirstRoleMode(_, _, _)
FirstRoleMode(roles, i, rm) ==
    IF i > Len(roles) THEN ""
    ELSE IF Str(roles[i]) \in DOMAIN rm THEN AnonymityMode(rm[Str(roles[i])])
    ELSE FirstRoleMode(roles, i + 1, rm)

\* the channel's mode taken before the roles' modes
get_anonymity_mode_channel_first(roles, channel, rm, cm) ==
    IF Str(channel) \in DOMAIN cm THEN AnonymityMode(cm[Str(channel)])
    ELSE IF FirstRoleMode(roles, 1, rm) # "" THEN FirstRoleMode(roles, 1, rm)
    ELSE AnonymityMode(BASIC_ANONYMITY)

\* utils.py, lines 42-60
get_anonymity_mode(roles, channel, rm, cm) ==
    IF FirstRoleMode(roles, 1, rm) # "" THEN FirstRoleMode(roles, 1, rm)
    ELSE AnonymityMode(DictGet(cm, Str(channel), BASIC_ANONYMITY))

\* a removal that takes the channel off the list and keeps its mode
update_channels_keep_mode(channel, mode, enable) ==
    IF enable
    THEN [enabled_channels |->
              IF InList(channel, enabled_channels) THEN enabled_channels
              ELSE Append(enabled_channels, channel),
          channel_modes |-> DictSet(channel_modes, Str(channel), mode)]
    ELSE IF InList(channel, enabled_channels)
    THEN [enabled_channels |-> ListRemove(channel, enabled_channels),
          channel_modes |-> channel_modes]
    ELSE [enabled_channels |-> enabled_channels,
          channel_modes |-> channel_modes]

\* utils.py, lines 110-122, for a list of one channel: the new
\* enabled_channels and channel_modes
update_channels(channel, mode, enable) ==
    IF enable
    THEN [enabled_channels |->
              IF InList(channel, enabled_channels) THEN enabled_channels
              ELSE Append(enabled_channels, channel),
          channel_modes |-> DictSet(channel_modes, Str(channel), mode)]
    ELSE IF InList(channel, enabled_channels)
    THEN [enabled_channels |-> ListRemove(channel, enabled_channels),
          channel_modes |-> DictDel(channel_modes, Str(channel))]
    ELSE [enabled_channels |-> enabled_channels,
          channel_modes |-> channel_modes]

InitMode ==
    /\ LinkIdle
    /\ AnonIdle
    /\ RelayIdle
    /\ ChannelIdle
    /\ StatusIdle
    /\ VerifyIdle

\* [p]anonymous channel add, and channel set on an enabled channel:
\* update_channels raises ValueError on a word that is no mode
ChannelAdd ==
    /\ \E channel \in ChannelIds, mode \in ModeWords :
          /\ AnonymityMode(mode) # "ValueError"
          /\ LET data == update_channels(channel, mode, TRUE)
             IN  /\ enabled_channels' = data.enabled_channels
                 /\ channel_modes' = data.channel_modes
    /\ UNCHANGED <<notAnonVars, role_modes, user_ids, mode_call, id_calls>>

\* [p]anonymous channel remove
ChannelRemove ==
    /\ \E channel \in ChannelIds :
          LET data == update_channels(channel, BASIC_ANONYMITY, FALSE)
          IN  /\ enabled_channels' = data.enabled_channels
              /\ channel_modes' = data.channel_modes
    /\ UNCHANGED <<notAnonVars, role_modes, user_ids, mode_call, id_calls>>

\* [p]anonymous role add: update_roles, lines 141-152, for a list of one
\* role; a word that is no mode raises ValueError
RoleAdd ==
    /\ \E role \in RoleIds, mode \in ModeWords :
          /\ AnonymityMode(mode) # "ValueError"
          /\ role_modes' = DictSet(role_modes, Str(role), mode)
    /\ UNCHANGED <<notAnonVars, enabled_channels, channel_modes, user_ids,
                   mode_call, id_calls>>

\* [p]anonymous role remove
RoleRemove ==
    /\ \E role \in RoleIds :
          /\ Str(role) \in DOMAIN role_modes
          /\ role_modes' = DictDel(role_modes, Str(role))
    /\ UNCHANGED <<notAnonVars, enabled_channels, channel_modes, user_ids,
                   mode_call, id_calls>>

\* a call of get_anonymity_mode for a member in a channel
CallGetAnonymityMode ==
    /\ \E roles \in MemberRoleLists, channel \in ChannelIds :
          mode_call' =
              ModeCall(roles, channel,
                       get_anonymity_mode(roles, channel, role_modes,
                                          channel_modes))
    /\ UNCHANGED <<notAnonVars, enabled_channels, channel_modes, role_modes,
                   user_ids, id_calls>>

NextMode ==
    \/ ChannelAdd
    \/ ChannelRemove
    \/ RoleAdd
    \/ RoleRemove
    \/ CallGetAnonymityMode

SpecMode == InitMode /\ [][NextMode]_vars

(***************************************************************************)
(* SpecIds: AnonymousUtils.generate_anonymous_id (anonymous_cog/utils.py,  *)
(* lines 23-32), called up to MaxIdCalls times on one guild, as            *)
(* format_webhook_name calls it for a message under basic anonymity.  The  *)
(* body runs inside 'async with ...user_ids()', which holds the lock of    *)
(* that value and has no await inside: a call is one step.                 *)
(***************************************************************************)
MaxIdCalls == 3

\* k of random.choices(string.digits, k=4)
ID_LENGTH == 4

\* the digits drawn, a part of string.digits that keeps the ids few
IdDigits == {"0", "1"}

\* the strings of n digits
RECURSIVE DigitStrings(_)
DigitStrings(n) ==
    IF n = 0 THEN {""}
    ELSE {s \o d : s \in DigitStrings(n - 1), d \in IdDigits}

AnonymousIds == DigitStrings(ID_LENGTH)

\* the members who write
UserIds == {1, 2, 3}

\* user_ids.values()
DictValues(d) == {d[k] : k \in DOMAIN d}

InitIds ==
    /\ LinkIdle
    /\ AnonIdle
    /\ RelayIdle
    /\ ChannelIdle
    /\ StatusIdle
    /\ VerifyIdle

\* a call that draws an id whether or not the user has one
GenerateAnonymousIdAlways(user_id) ==
    /\ Len(id_calls) < MaxIdCalls
    /\ \E new_id \in AnonymousIds \ DictValues(user_ids) :
          /\ user_ids' = DictSet(user_ids, Str(user_id), new_id)
          /\ id_calls' = Append(id_calls, [user |-> user_id, id |-> new_id])
    /\ UNCHANGED <<notAnonVars, enabled_channels, channel_modes, role_modes,
                   mode_call>>

\* lines 25-32: the stored id when there is one; else the loop draws until
\* the id drawn is not a value of user_ids, stores it and returns it
GenerateAnonymousId(user_id) ==
    /\ Len(id_calls) < MaxIdCalls
    /\ IF Str(user_id) \notin DOMAIN user_ids
       THEN \E new_id \in AnonymousIds :
                /\ new_id \notin DictValues(user_ids)
                /\ user_ids' = DictSet(user_ids, Str(user_id), new_id)
                /\ id_calls' = Append(id_calls,
                                      [user |-> user_id, id |-> new_id])
       ELSE /\ id_calls' = Append(id_calls, [user |-> user_id,
                                             id |-> user_ids[Str(user_id)]])
            /\ UNCHANGED user_ids
    /\ UNCHANGED <<notAnonVars, enabled_channels, channel_modes, role_modes,
                   mode_call>>

NextIds == \E user_id \in UserIds : GenerateAnonymousId(user_id)

SpecIds == InitIds /\ [][NextIds]_vars

(***************************************************************************)
(* SpecStatus: the StatusRole cog (status_role_cog/cog.py) on one guild    *)
(* and one member: the commands that edit status_roles, and one run of     *)
(* _update_member_roles.  The run works on the dict it read at its start.  *)
(* member.add_roles and member.remove_roles are awaited HTTP calls: the    *)
(* member object's roles change when the gateway's member update is        *)
(* handled, which may be during such an await or after the run.            *)
(***************************************************************************)
\* the words given as status text, the roles, the member's status
StatusTexts == {"APEX", "valorant"}
StatusRoleIds == {31, 32}
Statuses == {"", "playing apex", "Valorant"}

\* status_roles[status_text] = role_id: the value of a key is replaced
\* where it is, a new key goes to the end
StatusRolesSet(d, status_text, role_id) ==
    IF \E i \in 1..Len(d) : d[i][1] = status_text
    THEN [i \in 1..Len(d) |->
             IF d[i][1] = status_text THEN <<status_text, role_id>> ELSE d[i]]
    ELSE Append(d, <<status_text, role_id>>)

\* del status_roles[status_text]
StatusRolesDel(d, status_text) ==
    LET i == CHOOSE k \in 1..Len(d) : d[k][1] = status_text
    IN  SubSeq(d, 1, i - 1) \o SubSeq(d, i + 1, Len(d))

InitStatus ==
    /\ LinkIdle
    /\ AnonIdle
    /\ RelayIdle
    /\ ChannelIdle
    /\ VerifyIdle
    /\ status_roles = <<>>
    /\ guild_roles = StatusRoleIds
    /\ permitted \in {StatusRoleIds, {32}}
    /\ held_roles \in SUBSET StatusRoleIds
    /\ member_roles = held_roles
    /\ status \in Statuses
    /\ spc = "idle"
    /\ entries = <<>>
    /\ sidx = 1

\* [p]statusrole add, lines 28-38
add_status_role ==
    /\ \E role \in guild_roles, status_text \in StatusTexts :
          status_roles' = StatusRolesSet(status_roles, status_text, role)
    /\ UNCHANGED <<notStatusVars, guild_roles, permitted, held_roles,
                   member_roles, status, spc, entries, sidx>>

\* [p]statusrole remove, lines 40-52
remove_status_role ==
    /\ \E status_text \in StatusTexts :
          /\ \E i \in 1..Len(status_roles) : status_roles[i][1] = status_text
          /\ status_roles' = StatusRolesDel(status_roles, status_text)
    /\ UNCHANGED <<notStatusVars, guild_roles, permitted, held_roles,
                   member_roles, status, spc, entries, sidx>>

\* a role of the guild is deleted: guild.get_role finds it no more (line 91)
\* and no member holds it
DeleteRole ==
    /\ \E role \in guild_roles :
          /\ guild_roles' = guild_roles \ {role}
          /\ held_roles' = held_roles \ {role}
          /\ member_roles' = member_roles \ {role}
    /\ UNCHANGED <<notStatusVars, status_roles, permitted, status, spc,
                   entries, sidx>>

\* lines 73-87: the dict is read, the run returns when it is empty
StartUpdate ==
    /\ spc = "idle"
    /\ entries' = status_roles
    /\ sidx' = 1
    /\ spc' = IF status_roles = <<>> THEN "done" ELSE "loop"
    /\ UNCHANGED <<notStatusVars, status_roles, guild_roles, permitted,
                   held_roles, member_roles, status>>

\* the status contains the text, both lowercased
StatusMatches(status_text) ==
    status # "" /\ Contains(Lower(status), Lower(status_text))

\* an awaited role change of the member returned: the member holds `now`,
\* and member.roles shows that or still what it showed
RoleChangeDone(now) ==
    /\ held_roles' = now
    /\ member_roles' \in {member_roles, now}

\* lines 90-108: one iteration of the loop
UpdateEntry ==
    LET status_text == entries[sidx][1]
        role        == entries[sidx][2]
        has_role    == role \in member_roles
    IN  /\ spc = "loop"
        /\ sidx <= Len(entries)
        /\ sidx' = sidx + 1
        /\ IF role \notin guild_roles
           THEN UNCHANGED <<held_roles, member_roles, spc>>
           ELSE IF StatusMatches(status_text)
           THEN IF ~has_role
                THEN \/ /\ role \in permitted
                        /\ RoleChangeDone(held_roles \cup {role})
                        /\ UNCHANGED spc
                     \/ /\ role \notin permitted
                        /\ RoleChangeDone(held_roles)
                        /\ UNCHANGED spc
                     \/ /\ RoleChangeDone(held_roles)
                        /\ spc' = "raised"
                ELSE UNCHANGED <<held_roles, member_roles, spc>>
           ELSE IF has_role
                THEN \/ /\ role \in permitted
                        /\ RoleChangeDone(held_roles \ {role})
                        /\ UNCHANGED spc
                     \/ /\ role \notin permitted
                        /\ RoleChangeDone(held_roles)
                        /\ UNCHANGED spc
                     \/ /\ RoleChangeDone(held_roles)
                        /\ spc' = "raised"
                ELSE UNCHANGED <<held_roles, member_roles, spc>>
        /\ UNCHANGED <<notStatusVars, status_roles, guild_roles, permitted,
                       status, entries>>

\* the loop has no entry left
EndUpdate ==
    /\ spc = "loop"
    /\ sidx > Len(entries)
    /\ spc' = "done"
    /\ UNCHANGED <<notStatusVars, status_roles, guild_roles, permitted,
                   held_roles, member_roles, status, entries, sidx>>

NextStatus ==
    \/ add_status_role
    \/ remove_status_role
    \/ DeleteRole
    \/ StartUpdate
    \/ UpdateEntry
    \/ EndUpdate

SpecStatus == InitStatus /\ [][NextStatus]_vars

(***************************************************************************)
(* SpecVerify: the Verify cog (verify_cog/cog.py) on one guild: the panel  *)
(* command, and one click of the verify button by one member.              *)
(* interaction.user.add_roles of line 53 is discord.py's Member.add_roles *)
(* with its default atomic=True: one HTTP request per role, in order, each *)
(* awaited; a request for a role the bot may not give raises               *)
(* discord.Forbidden, after the requests before it have taken effect.      *)
(***************************************************************************)
VerifyRoleIds == {41, 42}

\* the role lists given to the panel command: one role, or both
PanelRoleLists == {<<41>>, <<42>>, <<41, 42>>, <<42, 41>>}

NO_ROLES_ERROR == "Error: No verification roles are set up."
SUCCESS_MESSAGE == "Verification successful! Assigning roles..."
PERMISSION_ERROR == "Error: I don't have permission to assign roles."
OTHER_ERROR == "An error occurred: "

InitVerify ==
    /\ LinkIdle
    /\ AnonIdle
    /\ RelayIdle
    /\ ChannelIdle
    /\ StatusIdle
    /\ verify_roles = <<>>
    /\ existing_roles = VerifyRoleIds
    /\ assignable \in SUBSET VerifyRoleIds
    /\ user_roles \in SUBSET VerifyRoleIds
    /\ vpc = "idle"
    /\ click = [guild_roles |-> <<>>, before |-> {}, failure |-> ""]
    /\ roles_to_assign = <<>>
    /\ response = Response("none", "")

\* [p]verify panel with at least one role, lines 109-136: the ids are stored
panel ==
    /\ \E role_list \in PanelRoleLists :
          /\ \A i \in 1..Len(role_list) : role_list[i] \in existing_roles
          /\ verify_roles' = role_list
    /\ UNCHANGED <<notVerifyVars, existing_roles, assignable, user_roles, vpc,
                   click, roles_to_assign, response>>

\* a role of the guild is deleted: get_role finds it no more, no member
\* holds it
DeleteVerifyRole ==
    /\ \E role \in existing_roles :
          /\ existing_roles' = existing_roles \ {role}
          /\ user_roles' = user_roles \ {role}
    /\ UNCHANGED <<notVerifyVars, verify_roles, assignable, vpc, click,
                   roles_to_assign, response>>

\* the elements of list that are in set, in the list's order
RECURSIVE Kept(_, _)
Kept(list, set) ==
    IF list = <<>> THEN <<>>
    ELSE (IF Head(list) \in set THEN <<Head(list)>> ELSE <<>>)
         \o Kept(Tail(list), set)

\* lines 34-52: the stored list is read; when it is empty the error is the
\* answer; else the success message is sent and the roles that exist are
\* collected, and the callback sleeps
Click ==
    /\ vpc = "idle"
    /\ click' = [guild_roles |-> verify_roles, before |-> user_roles,
                 failure |-> ""]
    /\ IF verify_roles = <<>>
       THEN /\ response' = Response("sent", NO_ROLES_ERROR)
            /\ vpc' = "done"
            /\ UNCHANGED roles_to_assign
       ELSE /\ response' = Response("sent", SUCCESS_MESSAGE)
            /\ roles_to_assign' = Kept(verify_roles, existing_roles)
            /\ vpc' = "add_roles"
    /\ UNCHANGED <<notVerifyVars, verify_roles, existing_roles, assignable,
                   user_roles>>

\* lines 57-60: what the except clauses do
Refused ==
    /\ click' = [click EXCEPT !.failure = "forbidden"]
    /\ response' = Response("sent", PERMISSION_ERROR)
    /\ vpc' = "done"

Failed ==
    /\ click' = [click EXCEPT !.failure = "error"]
    /\ response' = Response("sent", OTHER_ERROR)
    /\ vpc' = "done"

\* line 53: one request of add_roles, for the next role: the role is given,
\* or the request is refused, or it fails because the role is gone
AddRole ==
    /\ vpc = "add_roles"
    /\ roles_to_assign # <<>>
    /\ LET role == Head(roles_to_assign)
       IN  IF role \notin existing_roles
           THEN Failed /\ UNCHANGED <<user_roles, roles_to_assign>>
           ELSE IF role \notin assignable
           THEN Refused /\ UNCHANGED <<user_roles, roles_to_assign>>
           ELSE /\ user_roles' = user_roles \cup {role}
                /\ roles_to_assign' = Tail(roles_to_assign)
                /\ UNCHANGED <<vpc, click, response>>
    /\ UNCHANGED <<notVerifyVars, verify_roles, existing_roles, assignable>>

\* line 56: await interaction.delete_original_response(), which succeeds or
\* raises another exception than Forbidden
DeleteResponse ==
    /\ vpc = "add_roles"
    /\ roles_to_assign = <<>>
    /\ \/ /\ response' = Response("deleted", "")
          /\ vpc' = "done"
          /\ UNCHANGED click
       \/ Failed
    /\ UNCHANGED <<notVerifyVars, verify_roles, existing_roles, assignable,
                   user_roles, roles_to_assign>>

NextVerify ==
    \/ panel
    \/ DeleteVerifyRole
    \/ Click
    \/ AddRole
    \/ DeleteResponse

SpecVerify == InitVerify /\ [][NextVerify]_vars

(***************************************************************************)
(* SpecRelay: Anonymous.on_message (anonymous_cog/cog.py, lines 357-390)   *)
(* handling one message, with send_anonymous_message and get_webhook       *)
(* (anonymous_cog/utils.py).  Every await of a Discord call is a step      *)
(* whose outcome the environment chooses: "ok", or "error" when the call   *)
(* raises.                                                                 *)
(***************************************************************************)
\* the authors of the messages
AuthorIds == {1, 2}

\* the messages the handler is given
AnonMessages ==
    [guild : BOOLEAN, author_bot : BOOLEAN, channel : ChannelIds,
     author : AuthorIds, roles : {<<>>, <<5>>, <<6, 5>>}]

\* the settings of the guild when the message arrives
RelayChannelSettings ==
    {[enabled_channels |-> <<>>, channel_modes |-> EmptyDict]}
        \cup {[enabled_channels |-> <<21>>,
               channel_modes |-> DictSet(EmptyDict, Str(21), mode)] :
                  mode \in AnonymityModes}
RelayRoleSettings ==
    {EmptyDict, DictSet(EmptyDict, Str(5), FULL_ANONYMITY),
     DictSet(EmptyDict, Str(6), NO_ANONYMITY)}
RelayUserIds == {EmptyDict, DictSet(EmptyDict, Str(1), "0000")}

InitRelay ==
    /\ LinkIdle
    /\ StatusIdle
    /\ VerifyIdle
    /\ mode_call = ModeCall(<<>>, 0, "")
    /\ id_calls = <<>>
    /\ \E s \in RelayChannelSettings :
          /\ enabled_channels = s.enabled_channels
          /\ channel_modes = s.channel_modes
    /\ role_modes \in RelayRoleSettings
    /\ user_ids \in RelayUserIds
    /\ amessage \in AnonMessages
    /\ apc = "start"
    /\ amode = ""
    /\ original = "present"
    /\ awebhooks = 0
    /\ acalls = <<>>
    /\ ChannelIdle

\* a Discord call of the handler and how it ended
Call(op, outcome) == [op |-> op, outcome |-> outcome]
Outcomes == {"ok", "error"}

\* cog.py lines 359-365: messages outside a guild, of bots, and of channels
\* that are not enabled are left alone
AnonCheck ==
    /\ apc = "start"
    /\ apc' = IF \/ ~amessage.guild
                 \/ amessage.author_bot
                 \/ ~InList(amessage.channel, enabled_channels)
              THEN "done"
              ELSE "delete"
    /\ UNCHANGED <<notRelayVars, user_ids, amessage, amode, original, awebhooks,
                   acalls>>

\* cog.py lines 368-375: await message.delete(), outside the try statement,
\* then the mode of the message
AnonDeleteOriginal ==
    /\ apc = "delete"
    /\ \E outcome \in Outcomes :
          /\ acalls' = Append(acalls, Call("delete", outcome))
          /\ IF outcome = "ok"
             THEN /\ original' = "deleted"
                  /\ amode' = get_anonymity_mode(amessage.roles,
                                                 amessage.channel,
                                                 role_modes, channel_modes)
                  /\ apc' = "get_webhook"
             ELSE /\ apc' = "raised"
                  /\ UNCHANGED <<original, amode>>
    /\ UNCHANGED <<notRelayVars, user_ids, amessage, awebhooks>>

\* cog.py line 378, utils.py lines 34-40: create_webhook, whose HTTPException
\* is raised again as an HTTPException, outside the try statement
get_webhook ==
    /\ apc = "get_webhook"
    /\ \E outcome \in Outcomes :
          /\ acalls' = Append(acalls, Call("create_webhook", outcome))
          /\ IF outcome = "ok"
             THEN /\ awebhooks' = awebhooks + 1
                  /\ apc' = "format_webhook_name"
             ELSE /\ apc' = "raised"
                  /\ UNCHANGED awebhooks
    /\ UNCHANGED <<notRelayVars, user_ids, amessage, amode, original>>

\* utils.py lines 164-168, 62-88: the name of the webhook; the basic mode
\* calls generate_anonymous_id (lines 25-32), which stores an id for an
\* author who has none
format_webhook_name ==
    /\ apc = "format_webhook_name"
    /\ IF amode = BASIC_ANONYMITY /\ Str(amessage.author) \notin DOMAIN user_ids
       THEN \E new_id \in AnonymousIds :
                /\ new_id \notin DictValues(user_ids)
                /\ user_ids' = DictSet(user_ids, Str(amessage.author), new_id)
       ELSE UNCHANGED user_ids
    /\ apc' = "webhook_send"
    /\ UNCHANGED <<notRelayVars, amessage, amode, original, awebhooks, acalls>>

\* utils.py lines 179-184: await webhook.send(...), the attachments'
\* to_file() included; an exception goes to the handler of line 189
send_anonymous_message ==
    /\ apc = "webhook_send"
    /\ \E outcome \in Outcomes :
          /\ acalls' = Append(acalls, Call("webhook_send", outcome))
          /\ apc' = IF outcome = "ok" THEN "second_delete" ELSE "inner_error"
    /\ UNCHANGED <<notRelayVars, user_ids, amessage, amode, original, awebhooks>>

\* utils.py line 187: await message.delete() on the message that line 368
\* of cog.py deleted: Discord answers 404 and the call raises NotFound
SecondDelete ==
    /\ apc = "second_delete"
    /\ acalls' = Append(acalls, Call("delete", IF original = "deleted"
                                                THEN "error" ELSE "ok"))
    /\ apc' = IF original = "deleted" THEN "inner_error" ELSE "webhook_delete"
    /\ original' = "deleted"
    /\ UNCHANGED <<notRelayVars, user_ids, amessage, amode, awebhooks>>

\* the error handler of cog.py lines 383-387 with the finally clause left
\* out: a failed send of the error message ends the handler
OuterErrorNoFinally ==
    /\ apc = "outer_error"
    /\ \E outcome \in Outcomes :
          /\ acalls' = Append(acalls, Call("channel_send", outcome))
          /\ apc' = IF outcome = "ok" THEN "webhook_delete" ELSE "raised"
    /\ UNCHANGED <<notRelayVars, user_ids, amessage, amode, original, awebhooks>>

\* utils.py lines 189-193: the error message of send_anonymous_message; when
\* sending it raises, the exception leaves send_anonymous_message
InnerError ==
    /\ apc = "inner_error"
    /\ \E outcome \in Outcomes :
          /\ acalls' = Append(acalls, Call("channel_send", outcome))
          /\ apc' = IF outcome = "ok" THEN "webhook_delete" ELSE "outer_error"
    /\ UNCHANGED <<notRelayVars, user_ids, amessage, amode, original, awebhooks>>

\* cog.py lines 383-387: the error message of on_message; when sending it
\* raises, the finally clause runs with the exception pending
OuterError ==
    /\ apc = "outer_error"
    /\ \E outcome \in Outcomes :
          /\ acalls' = Append(acalls, Call("channel_send", outcome))
          /\ apc' = IF outcome = "ok"
                    THEN "webhook_delete"
                    ELSE "webhook_delete_raising"
    /\ UNCHANGED <<notRelayVars, user_ids, amessage, amode, original, awebhooks>>

\* cog.py lines 388-390: finally: await webhook.delete(); the handler ends
\* with the pending exception or with the one of webhook.delete()
AnonWebhookDelete ==
    /\ apc \in {"webhook_delete", "webhook_delete_raising"}
    /\ \E outcome \in Outcomes :
          /\ acalls' = Append(acalls, Call("webhook_delete", outcome))
          /\ awebhooks' = IF outcome = "ok" THEN awebhooks - 1 ELSE awebhooks
          /\ apc' = IF outcome = "ok" /\ apc = "webhook_delete"
                    THEN "done"
                    ELSE "raised"
    /\ UNCHANGED <<notRelayVars, user_ids, amessage, amode, original>>

NextRelay ==
    \/ AnonCheck
    \/ AnonDeleteOriginal
    \/ get_webhook
    \/ format_webhook_name
    \/ send_anonymous_message
    \/ SecondDelete
    \/ InnerError
    \/ OuterError
    \/ AnonWebhookDelete

SpecRelay == InitRelay /\ [][NextRelay]_vars

(***************************************************************************)
(* SpecChannels: the commands channel add, channel remove and channel set  *)
(* of the Anonymous cog (anonymous_cog/cog.py, lines 64-144) on one guild  *)
(* that starts with the default config, each calling update_channels       *)
(* (anonymous_cog/utils.py, lines 90-125) with a list of one channel.      *)
(* update_channels changes the config under the lock of                    *)
(* "async with self.config.guild(guild).all()" with no await inside; a     *)
(* channel set reads the config first, and other commands may run between  *)
(* its read and its call of update_channels.                               *)
(***************************************************************************)
InitChannels ==
    /\ LinkIdle
    /\ AnonIdle
    /\ RelayIdle
    /\ ChannelIdle
    /\ StatusIdle
    /\ VerifyIdle

\* utils.py lines 103-125 called by command op: ValueError before anything
\* is changed for a word that is no mode, else the update
CallUpdateChannels(op, channel, mode, enable) ==
    IF AnonymityMode(mode) = "ValueError"
    THEN /\ channel_call' = ChannelCall(op, channel, mode, "ValueError",
                                        enabled_channels, channel_modes)
         /\ UNCHANGED <<enabled_channels, channel_modes>>
    ELSE LET data == update_channels(channel, AnonymityMode(mode), enable)
         IN  /\ enabled_channels' = data.enabled_channels
             /\ channel_modes' = data.channel_modes
             /\ channel_call' = ChannelCall(op, channel, mode, "success",
                                            enabled_channels, channel_modes)

\* cog.py lines 64-90
channel_add ==
    /\ \E channel \in ChannelIds, mode \in ModeWords :
          CallUpdateChannels("add", channel, mode, TRUE)
    /\ UNCHANGED <<notChannelVars, set_call>>

\* cog.py lines 92-113
channel_remove ==
    /\ \E channel \in ChannelIds :
          CallUpdateChannels("remove", channel, BASIC_ANONYMITY, FALSE)
    /\ UNCHANGED <<notChannelVars, set_call>>

\* cog.py lines 132-135: channel set reads the config and returns for a
\* channel that is not enabled
channel_set ==
    /\ set_call.channel = 0
    /\ \E channel \in ChannelIds, mode \in ModeWords :
          IF InList(channel, enabled_channels)
          THEN /\ set_call' = [channel |-> channel, mode |-> mode]
               /\ UNCHANGED channel_call
          ELSE /\ channel_call' = ChannelCall("set", channel, mode,
                                              "not enabled", enabled_channels,
                                              channel_modes)
               /\ UNCHANGED set_call
    /\ UNCHANGED <<notChannelVars, enabled_channels, channel_modes>>

\* cog.py lines 137-144: the channel set that found its channel enabled
\* calls update_channels
ChannelSetUpdate ==
    /\ set_call.channel # 0
    /\ CallUpdateChannels("set", set_call.channel, set_call.mode, TRUE)
    /\ set_call' = [channel |-> 0, mode |-> ""]
    /\ UNCHANGED notChannelVars

NextChannels ==
    \/ channel_add
    \/ channel_remove
    \/ channel_set
    \/ ChannelSetUpdate

SpecChannels == InitChannels /\ [][NextChannels]_vars

(***************************************************************************)
(* Claims about is_valid_domain.                                           *)
(***************************************************************************)
\* the hosts the validator excludes by name or by kind
IsLocalhost(h) == Lower(h) = "localhost"
HasPlaceholder(h) == Contains(h, "example.com")
Excluded(h) == IsLocalhost(h) \/ HasPlaceholder(h) \/ IsIPAddress(h)

\* C6: is_valid_domain returns False, whatever the whitelist, for a host that
\* equals 'localhost' ignoring case, or contains 'example.com', or parses as
\* an IPv4 or IPv6 literal.
C6_ExcludedHostsRejected ==
    (called /\ Excluded(domain)) => valid = FALSE

C6_Witness ==
    /\ called
    /\ valid = FALSE
    /\ domain \in {"192.168.1.1", "::1", "LocalHost", "my.example.com"}
    /\ whitelisted_domains = <<>>

\* some entry of the whitelist equals the host ignoring case
EqualsEntryIgnoringCase(h, wl) == \E i \in 1..Len(wl) : Lower(wl[i]) = Lower(h)

\* C7: is_valid_domain returns False when the host equals a whitelist entry
\* ignoring case (in either direction of the case difference), and a host
\* that is valid with an empty whitelist and equals no entry ignoring case
\* is accepted.
C7_WhitelistIgnoresCase ==
    called =>
        /\ EqualsEntryIgnoringCase(domain, whitelisted_domains) => valid = FALSE
        /\ (/\ is_valid_domain(domain, <<>>)
            /\ ~EqualsEntryIgnoringCase(domain, whitelisted_domains)) => valid = TRUE

C7_Witness ==
    /\ called
    /\ valid = FALSE
    /\ \/ domain = "Example.ORG" /\ whitelisted_domains[1] = "example.org"
       \/ domain = "good-site.org" /\ whitelisted_domains[2] = "Good-Site.ORG"

\* the shape label(.label)+ : every label 1 to 63 alphanumeric-or-hyphen
\* characters with no leading or trailing hyphen, the last one alphabetic of
\* length at least 2
ShapeLabel(l) ==
    /\ Len(l) >= 1
    /\ Len(l) <= 63
    /\ AllChars(l, AlnumHyphen)
    /\ Char(l, 1) # "-"
    /\ Char(l, Len(l)) # "-"

HasDomainShape(h) ==
    LET labels == Split(h, ".")
        last   == labels[Len(labels)]
    IN  /\ Len(labels) >= 2
        /\ \A i \in 1..Len(labels) : ShapeLabel(labels[i])
        /\ Len(last) >= 2
        /\ AllChars(last, Letters)

\* C8: for a host that is not localhost, holds no 'example.com', is no IP
\* literal and is not whitelisted, is_valid_domain returns True exactly when
\* the host has the shape label(.label)+ above, hosts of three or more labels
\* with digits or hyphens in the middle labels included.
C8_ValidExactlyOnShape ==
    (/\ called
     /\ ~IsLocalhost(domain)
     /\ ~HasPlaceholder(Lower(domain))
     /\ ~IsIPAddress(domain)
     /\ ~EqualsEntryIgnoringCase(domain, whitelisted_domains))
        => (valid = HasDomainShape(domain))


(***************************************************************************)
(* Claims about extract_urls.                                              *)
(***************************************************************************)
\* C9: every element (url, start, end) of the list extract_urls returns has
\* 0 <= start < end <= len(text) and text[start:end] == url; the elements
\* are in strictly increasing order of start and their spans do not overlap.
C9_SpansOrderedAndDisjoint ==
    called =>
        /\ \A i \in 1..Len(urls) :
              /\ 0 <= urls[i].start
              /\ urls[i].start < urls[i].end
              /\ urls[i].end <= Len(text)
              /\ SubSeq(text, urls[i].start + 1, urls[i].end) = urls[i].url
        /\ \A i \in 1..(Len(urls) - 1) :
              /\ urls[i].start < urls[i + 1].start
              /\ urls[i].end <= urls[i + 1].start

C9_Witness ==
    /\ called
    /\ Len(urls) >= 2
    /\ urls[1].end < urls[2].start

\* the words of a text: the pieces between its spaces
Words(t) == Split(t, " ")

\* a word is a link to an excluded or whitelisted host: an optional scheme, a
\* host that is localhost, an IP literal, holds example.com or is on the
\* whitelist, then an optional path
LinkToExcludedHost(w, wl) ==
    LET h == UrlNetloc(w)
    IN  Excluded(h) \/ EqualsEntryIgnoringCase(h, wl)

OnlyExcludedLinks(t, wl) ==
    \A i \in 1..Len(Words(t)) :
        Words(t)[i] = "" \/ LinkToExcludedHost(Words(t)[i], wl)

\* C10: for a text whose only links point to whitelisted or excluded hosts
\* (localhost, an IP literal, a host containing example.com), with any path
\* after the host, extract_urls returns an empty list.
C10_ExcludedLinksYieldNothing ==
    (called /\ OnlyExcludedLinks(text, whitelisted_domains)) => urls = <<>>


(***************************************************************************)
(* Claims about the rewrite loop of on_message.                            *)
(***************************************************************************)
\* the original text from index `from` on, in which the span of match i, i+1,
\* ... is replaced by what the conversion returned for it when that differs
\* from the matched URL, and every other character is kept
RECURSIVE Spliced(_, _, _, _, _)
Spliced(t, infos, cv, i, from) ==
    IF i > Len(cv) THEN SubSeq(t, from + 1, Len(t))
    ELSE SubSeq(t, from + 1, infos[i].start)
         \o (IF cv[i].new_url # infos[i].url THEN cv[i].new_url
             ELSE SubSeq(t, infos[i].start + 1, infos[i].end))
         \o Spliced(t, infos, cv, i + 1, infos[i].end)

\* the sum of len(new_url) - len(url) over the first n conversions that
\* changed their URL
RECURSIVE LengthDelta(_, _)
LengthDelta(cv, n) ==
    IF n = 0 THEN 0
    ELSE LengthDelta(cv, n - 1)
         + (IF cv[n].new_url # cv[n].url
            THEN Len(cv[n].new_url) - Len(cv[n].url) ELSE 0)

\* the loop is running or has ended, and the footer is not appended yet
InLoop == pc = "convert" \/ (pc = "done" /\ url_infos # <<>>)

\* C1: the rewritten text is the original text in which each span whose
\* converted URL differs from the matched URL is replaced by the converted
\* URL and every other character is kept; each replacement lies at
\* [start + offset, end + offset) of the edited text, offset being the sum of
\* len(new_url) - len(url) over the replacements before it.
C1_RewriteReplacesEachSpan ==
    LET expected == Spliced(message.content, url_infos, conv, 1, 0)
    IN  /\ InLoop =>
              /\ new_content = expected
              /\ offset = LengthDelta(conv, Len(conv))
              /\ \A i \in 1..Len(conv) :
                    conv[i].new_url # conv[i].url =>
                        LET at == url_infos[i].start + LengthDelta(conv, i - 1)
                        IN  SubSeq(new_content, at + 1,
                                   at + Len(conv[i].new_url)) = conv[i].new_url
        /\ pc = "delete" => new_content = expected \o footer_text

C1_Witness ==
    /\ pc = "convert"
    /\ message.content = SpecExample
    /\ Len(conv) = 2
    /\ conv[1].new_url = "X"
    /\ conv[2].new_url = "YY"
    /\ new_content = "see X and YY now"

\* every conversion so far returned the URL it was given
AllUnchanged == \A i \in 1..Len(conv) : conv[i].new_url = conv[i].url

\* C2: when the conversion returns every URL unchanged, the text stays equal
\* to the input, character for character, and the offset stays 0.
C2_IdentityConversionKeepsText ==
    (InLoop /\ AllUnchanged) =>
        /\ new_content = message.content
        /\ offset = 0

C2_Witness ==
    /\ pc = "done"
    /\ Len(conv) = 2
    /\ AllUnchanged
    /\ new_content = message.content

\* two matches, the first conversion returned its input, the second did not
FirstKeptSecondChanged ==
    /\ InLoop
    /\ Len(url_infos) = 2
    /\ Len(conv) = 2
    /\ conv[1].new_url = conv[1].url
    /\ conv[2].new_url # conv[2].url

\* C3: with two matches of which the first conversion returns its input and
\* the second a different string, only the second span is replaced: the text
\* up to the second match is untouched, the second replacement lies at its
\* original span and the rest of the text follows it.
C3_UnchangedMatchCausesNoEdit ==
    FirstKeptSecondChanged =>
        LET m1 == url_infos[1]
            m2 == url_infos[2]
            nu == conv[2].new_url
        IN  /\ SubSeq(new_content, 1, m2.start)
                 = SubSeq(message.content, 1, m2.start)
            /\ SubSeq(new_content, m1.start + 1, m1.end) = m1.url
            /\ SubSeq(new_content, m2.start + 1, m2.start + Len(nu)) = nu
            /\ SubSeq(new_content, m2.start + Len(nu) + 1, Len(new_content))
                 = SubSeq(message.content, m2.end + 1, Len(message.content))
            /\ offset = Len(nu) - Len(m2.url)

C3_Witness ==
    /\ FirstKeptSecondChanged
    /\ message.content = "http://a.com bb.com"
    /\ new_content = "http://a.com YY"

(***************************************************************************)
(* Claims about convert_to_linkvertise and a failed conversion.            *)
(***************************************************************************)
\* C4: when the Linkvertise client call raises, convert_to_linkvertise
\* returns a string equal to the url it was given, with or without a scheme.
C4_FailedConversionReturnsInput ==
    \A i \in 1..Len(conv) : conv[i].raised => conv[i].new_url = conv[i].url

\* the loop is over and the Linkvertise call raised for every link
AllConversionsFailed ==
    /\ url_infos # <<>>
    /\ Len(conv) = Len(url_infos)
    /\ \A i \in 1..Len(conv) : conv[i].raised

\* C5: when the Linkvertise call fails for every link of a message, the
\* original message is not deleted, no webhook is created and nothing is
\* sent or replied.
C5_AllFailedLeavesChannelAlone ==
    AllConversionsFailed =>
        /\ ~deleted
        /\ webhooks = 0
        /\ log = <<>>

(***************************************************************************)
(* Claims about the whole of LinkvertiseCog.on_message.                    *)
(***************************************************************************)
\* the message is one the handler ignores
Ignored ==
    \/ config.account_id = 0
    \/ /\ config.whitelisted_role_id # 0
       /\ config.whitelisted_role_id \in message.author_roles
    \/ message.author_bot
    \/ ~message.text_channel

\* the handler has called no conversion and has not reached a Discord call
NothingDone ==
    /\ pc \in {"start", "done"}
    /\ conv = <<>>
    /\ log = <<>>
    /\ ~deleted
    /\ webhooks = 0

\* C11: when the guild has no account id, the author holds the configured
\* whitelist role, the author is a bot, or the channel is no guild text
\* channel, on_message calls no conversion and performs no Discord action.
C11_IgnoredMessageUntouched == Ignored => NothingDone

C11_Witness ==
    /\ pc = "done"
    /\ config.whitelisted_role_id \in message.author_roles
    /\ config.account_id # 0
    /\ ~message.author_bot
    /\ message.text_channel
    /\ message.content = SpecExample
    /\ NothingDone

\* nothing happened to the channel
ChannelUntouched ==
    /\ ~deleted
    /\ webhooks = 0
    /\ log = <<>>

\* extract_urls has returned, without a match
NoMatch == pc \notin {"start", "extract"} /\ url_infos = <<>> /\ ~Ignored

\* the loop is over and the rewritten content is the original content
RewrittenEqualsOriginal ==
    /\ url_infos # <<>>
    /\ Len(conv) = Len(url_infos)
    /\ Spliced(message.content, url_infos, conv, 1, 0) = message.content

\* the loop replaced the span of at least one link
SomeLinkReplaced == \E i \in 1..Len(conv) : conv[i].new_url # conv[i].url

\* C12: when extract_urls returns no match, or the rewritten content equals
\* the original content, on_message returns and leaves the channel as it is:
\* nothing deleted, no webhook, nothing sent or replied; the original message
\* is deleted, or its deletion tried, only after a link was replaced.
C12_NoChangeLeavesChannelAlone ==
    /\ NoMatch => (pc = "done" /\ ChannelUntouched)
    /\ RewrittenEqualsOriginal => (pc \in {"convert", "done"} /\ ChannelUntouched)
    /\ (deleted \/ pc = "delete") => SomeLinkReplaced

C12_Witness ==
    /\ pc = "done"
    /\ RewrittenEqualsOriginal
    /\ message.content = "see http://a.com"
    /\ conv[1].raised
    /\ ChannelUntouched

\* the Linkvertise call succeeded for some link and gave another string
SomeLinkConverted ==
    \E i \in 1..Len(conv) : ~conv[i].raised /\ conv[i].new_url # conv[i].url

\* every Discord call the handler made so far succeeded
AllCallsSucceeded == \A i \in 1..Len(attempts) : attempts[i].outcome = "ok"

\* the calls of a relay, in order: the original deleted, a webhook created,
\* the rewritten text with the footer sent through it under the author's
\* name and avatar, the webhook deleted
RelayCalls ==
    <<Did("delete", "", "", ""),
      Did("create_webhook", "", message.display_name, ""),
      Did("webhook_send",
          Spliced(message.content, url_infos, conv, 1, 0)
              \o "\n\n" \o config.footer_text,
          message.display_name, message.avatar_url),
      Did("webhook_delete", "", "", "")>>

\* C13: when a link was converted and every Discord call succeeds, the calls
\* of on_message are, in this order and once each: delete the original,
\* create a webhook, send through it the rewritten text followed by the
\* footer under the author's display name and avatar, delete the webhook;
\* nothing is sent before the original is deleted and nothing else is sent.
C13_RelayCallsInOrder ==
    (SomeLinkConverted /\ AllCallsSucceeded) =>
        /\ Len(log) <= Len(RelayCalls)
        /\ log = SubSeq(RelayCalls, 1, Len(log))
        /\ pc = "done" => log = RelayCalls
        /\ deleted = (Len(log) >= 1)
        /\ webhooks = (IF Len(log) \in {2, 3} THEN 1 ELSE 0)

C13_Witness ==
    /\ pc = "done"
    /\ AllCallsSucceeded
    /\ message.content = SpecExample
    /\ Len(conv) = 2
    /\ \A i \in 1..2 : ~conv[i].raised
    /\ log = RelayCalls
    /\ log[3].content
         = "see https://link-to.net/7 and https://link-to.net/7 now\n\n"
           \o DEFAULT_FOOTER
    /\ log[3].username = "alice"

\* the first Discord call, the delete of the original, raised Forbidden
DeleteRefused ==
    /\ attempts # <<>>
    /\ attempts[1] = [op |-> "delete", outcome |-> "forbidden"]

\* the reply of lines 124-127, which names the last converted link
ReplyCall == Did("reply", "Links converted: " \o new_url \o footer_text, "", "")

\* C14 as stated: whenever the delete of the original is refused, the
\* handler ends with the original in place, no webhook, and one reply as the
\* only message sent.
C14_RefusedDeleteSendsOneReply ==
    (DeleteRefused /\ pc \in {"done", "raised"}) =>
        /\ ~deleted
        /\ webhooks = 0
        /\ log = <<ReplyCall>>

\* C14, amended: when the delete of the original is refused, the original
\* stays, no webhook is created, nothing goes through a webhook or channel.send, and
\* the handler makes one call of message.reply, its last call: when the
\* handler has ended, the reply is the one call after the delete, and the
\* one message sent when it succeeded.
C14_RefusedDeleteFallsBackToReply ==
    DeleteRefused =>
        /\ ~deleted
        /\ webhooks = 0
        /\ \A i \in 2..Len(attempts) : attempts[i].op = "reply"
        /\ Len(attempts) <= 2
        /\ pc \in {"reply", "done", "raised"}
        /\ (pc = "reply") = (Len(attempts) = 1)
        /\ pc = "done" => log = <<ReplyCall>>
        /\ pc = "raised" => (log = <<>> /\ attempts[2].outcome # "ok")

C14_Witness ==
    /\ DeleteRefused
    /\ pc = "done"
    /\ message.content = SpecExample
    /\ log = <<ReplyCall>>
    /\ Len(attempts) = 2

(***************************************************************************)
(* Claims about manage_whitelist.                                          *)
(***************************************************************************)
\* command c has called op
HasCalled(c, op) == \E i \in 1..Len(trace) : trace[i].cmd = c /\ trace[i].op = op

\* where in trace command c called op
Pos(c, op) == CHOOSE i \in 1..Len(trace) : trace[i].cmd = c /\ trace[i].op = op

\* a and b are two finished 'whitelist add' commands with different domains
\* that both read the list before either wrote it, a wrote first, and no
\* other command wrote since the first of the two reads
BothReadBeforeEitherWrote(a, b) ==
    /\ a # b
    /\ Lower(commands[a].action) = "add" /\ Lower(commands[b].action) = "add"
    /\ commands[a].domain # commands[b].domain
    /\ commands[a].pc = "done" /\ commands[b].pc = "done"
    /\ HasCalled(a, "set") /\ HasCalled(b, "set")
    /\ Pos(b, "get") < Pos(a, "set")
    /\ Pos(a, "set") < Pos(b, "set")
    /\ \A i \in 1..Len(trace) :
          (trace[i].op = "set" /\ trace[i].cmd \notin {a, b})
              => (i < Pos(a, "get") /\ i < Pos(b, "get"))

C16_StoredWhitelistLowercaseSet ==
    /\ \A i \in 1..Len(whitelisted_domains) :
          whitelisted_domains[i] = Lower(whitelisted_domains[i])
    /\ \A i, j \in 1..Len(whitelisted_domains) :
          Lower(whitelisted_domains[i]) = Lower(whitelisted_domains[j]) => i = j

(***************************************************************************)
(* Claims about the Anonymous cog.                                         *)
(***************************************************************************)
\* the positions in the role order `roles` of the roles with a mode in rm
RolesWithMode(roles, rm) == {i \in 1..Len(roles) : Str(roles[i]) \in DOMAIN rm}

\* the mode the claim gives a member with these roles in this channel
ModeAsClaimed(roles, channel, rm, cm) ==
    IF RolesWithMode(roles, rm) # {}
    THEN LET first == CHOOSE i \in RolesWithMode(roles, rm) :
                          \A j \in RolesWithMode(roles, rm) : i <= j
         IN  rm[Str(roles[first])]
    ELSE IF Str(channel) \in DOMAIN cm THEN cm[Str(channel)]
    ELSE "basic_anonymity"

\* C17: when some role of the member has an entry in role_modes, the result
\* of get_anonymity_mode is the mode of the first such role in the member's
\* role order, whatever the channel's mode; otherwise it is the channel's
\* entry in channel_modes, and basic_anonymity when the channel has none.
\* Stated of every call, on the settings stored when the call is made.
C17_RoleModeBeforeChannelMode ==
    [][mode_call' # mode_call =>
          mode_call'.result = ModeAsClaimed(mode_call'.roles, mode_call'.channel,
                                            role_modes, channel_modes)]_vars

C17_Witness ==
    /\ mode_call.roles = <<6, 5>>
    /\ DOMAIN role_modes = {"5", "6"}
    /\ role_modes["6"] = "full_anonymity"
    /\ role_modes["5"] = "no_anonymity"
    /\ Str(mode_call.channel) \in DOMAIN channel_modes
    /\ channel_modes[Str(mode_call.channel)] = "basic_anonymity"
    /\ mode_call.result = "full_anonymity"

\* C18: every call of generate_anonymous_id for a user returns the id of the
\* user's first call, whatever calls for other users lie between, and the
\* id stored for a user stays the one first returned.
C18_AnonymousIdStays ==
    /\ \A i, j \in 1..Len(id_calls) :
          id_calls[i].user = id_calls[j].user => id_calls[i].id = id_calls[j].id
    /\ \A i \in 1..Len(id_calls) :
          /\ Str(id_calls[i].user) \in DOMAIN user_ids
          /\ user_ids[Str(id_calls[i].user)] = id_calls[i].id

C18_Witness ==
    /\ Len(id_calls) = 3
    /\ id_calls[1].user = 1
    /\ id_calls[2].user = 2
    /\ id_calls[3].user = 1
    /\ id_calls[3].id = id_calls[1].id
    /\ id_calls[2].id # id_calls[1].id
    /\ user_ids["1"] = "0101"

(***************************************************************************)
(* Claims about the StatusRole cog.                                        *)
(***************************************************************************)
\* C19: after _update_member_roles has completed, for every entry of the
\* configuration whose role exists and may be changed by the bot: if the
\* member's status contains the entry's text ignoring case, the member
\* holds the entry's role.
C19_MatchingStatusHoldsRole ==
    spc = "done" =>
        \A i \in 1..Len(entries) :
            (/\ entries[i][2] \in guild_roles
             /\ entries[i][2] \in permitted
             /\ StatusMatches(entries[i][1]))
                => entries[i][2] \in held_roles

(***************************************************************************)
(* Claims about the Verify cog.                                            *)
(***************************************************************************)
\* the stored roles the callback read that exist
StoredExisting ==
    {click.guild_roles[i] : i \in 1..Len(click.guild_roles)} \cap existing_roles

\* a click on an empty stored list gives no role and answers with the error
C20_EmptyListAnswersError ==
    (vpc = "done" /\ click.guild_roles = <<>>) =>
        /\ user_roles \subseteq click.before
        /\ response = Response("sent", NO_ROLES_ERROR)

\* a click on a non-empty list, no call failing: the user has every stored
\* role that exists and the success response is deleted
C20_PermittedGivesEveryRole ==
    (vpc = "done" /\ click.guild_roles # <<>> /\ click.failure = "") =>
        /\ StoredExisting \subseteq user_roles
        /\ response.state = "deleted"

\* a click whose add_roles is refused: no role is added and the response is
\* the permission error
C20_RefusedAddsNoRole ==
    (vpc = "done" /\ click.failure = "forbidden") =>
        /\ user_roles \subseteq click.before
        /\ response = Response("sent", PERMISSION_ERROR)

\* C20: a click of the verify button on an empty stored role list assigns
\* no role and answers with an error; on a non-empty list with the bot
\* permitted the user is given every stored role that still exists and the
\* success response is deleted; when adding roles is refused no role is
\* added and the response is edited to a permission error.
C20_VerifyClickOutcomes ==
    /\ C20_EmptyListAnswersError
    /\ C20_PermittedGivesEveryRole
    /\ C20_RefusedAddsNoRole

(***************************************************************************)
(* Claims about the webhook and the reply of LinkvertiseCog.on_message.    *)
(***************************************************************************)
\* the handler has ended, by a return or by an exception
HandlerEnded == pc \in {"done", "raised"}

\* the handler created a webhook, and no call but the webhook send and what
\* follows its failure has failed
WebhookCreatedAndKept ==
    /\ \E i \in 1..Len(attempts) :
          attempts[i] = [op |-> "create_webhook", outcome |-> "ok"]
    /\ \A i \in 1..Len(attempts) :
          attempts[i].op \in {"delete", "create_webhook", "webhook_delete"}
              => attempts[i].outcome = "ok"

\* C21: every webhook the handler creates is deleted before the handler
\* ends, whether the webhook send succeeds, raises Forbidden or fails
\* otherwise: when the handler has ended, no webhook of it is in the channel.
C21_WebhookDeletedBeforeEnd ==
    (HandlerEnded /\ WebhookCreatedAndKept) => webhooks = 0

(***************************************************************************)
(* Claims about the webhook of Anonymous.on_message.                       *)
(***************************************************************************)
\* the handler of the Anonymous cog has returned or raised
AnonHandlerEnded == apc \in {"done", "raised"}

\* the positions of the calls of an operation in acalls
CallsOf(op) == {i \in 1..Len(acalls) : acalls[i].op = op}

\* get_webhook has given the handler a webhook
AnonWebhookCreated ==
    \E i \in CallsOf("create_webhook") : acalls[i].outcome = "ok"

\* the calls of the send attempt: webhook.send, the message.delete after
\* it and the error messages
SendAttemptCalls ==
    CallsOf("webhook_send") \cup CallsOf("channel_send")
        \cup {i \in CallsOf("delete") : i > 1}

ReportedLinks(content) ==
    SubSeq(content, Len("Links converted: ") + 1, Len(content) - Len(footer_text))

\* C23: when the delete of the original was refused and the reply was sent,
\* the reply contains the converted form of every link whose conversion
\* succeeded, and reports no link whose conversion failed.
C23_ReplyReportsConvertedLinks ==
    (DeleteRefused /\ pc = "done") =>
        /\ Len(log) = 1
        /\ log[1].op = "reply"
        /\ \A i \in 1..Len(conv) :
              IF conv[i].raised
              THEN ~Contains(ReportedLinks(log[1].content), conv[i].url)
              ELSE Contains(ReportedLinks(log[1].content), conv[i].new_url)

(***************************************************************************)
(* Claims about update_channels.                                           *)
(***************************************************************************)
\* the channel ids of enabled_channels
EnabledIds == {enabled_channels[i] : i \in 1..Len(enabled_channels)}

\* C24: after any sequence of channel add, remove and set on a guild that
\* starts with the default config, enabled_channels holds no channel id
\* twice, the keys of channel_modes are the ids of enabled_channels, every
\* stored mode is one of the three modes, and a call of update_channels with
\* a word that is no mode raised ValueError and left enabled_channels and
\* channel_modes as they were.
C24_ChannelConfigConsistent ==
    /\ \A i, j \in 1..Len(enabled_channels) :
          enabled_channels[i] = enabled_channels[j] => i = j
    /\ DOMAIN channel_modes = {Str(c) : c \in EnabledIds}
    /\ \A k \in DOMAIN channel_modes : channel_modes[k] \in AnonymityModes
    /\ (channel_call.op # "" /\ channel_call.result # "not enabled") =>
           (channel_call.result = "ValueError")
               = (channel_call.mode \notin AnonymityModes)
    /\ channel_call.result = "ValueError" =>
           /\ enabled_channels = channel_call.before.enabled_channels
           /\ channel_modes = channel_call.before.channel_modes

\* two channels enabled, one of them removed and added again, the mode of
\* the other set, and then a channel set with a word that is no mode
C24_Witness ==
    /\ enabled_channels = <<22, 21>>
    /\ channel_modes[Str(22)] = FULL_ANONYMITY
    /\ channel_modes[Str(21)] = NO_ANONYMITY
    /\ channel_call = ChannelCall("set", 21, "anonymous", "ValueError",
                                  enabled_channels, channel_modes)

====
